---- MODULE Spec2Model ----
(***************************************************************************)
(* MIPLearn feature store: the Sample interface and its two back-ends,     *)
(* MemorySample (a dictionary) and Hdf5Sample (an HDF5 file), modelled     *)
(* from src/miplearn/features/sample.py.                                   *)
(*                                                                         *)
(* A Python scalar is a record [t, b, n, s]: its type name and its value   *)
(* as a boolean, a number or a string.  A float is written by its integral *)
(* value (PyFloat(2049) is 2049.0); float16 infinity is the value Inf.     *)
(* Lists, arrays and matrices are records of their own.  An HDF5 dataset   *)
(* is a record [ndim, dtype, data, gzip], data being the sequence of its   *)
(* elements.  The file and the dictionary are functions whose domain is    *)
(* the set of keys present.                                                *)
(*                                                                         *)
(* The feature extraction of src/miplearn/features.py works on its own     *)
(* Sample (a dictionary, the variable sample), filled from the data of the *)
(* Instance and of the solver (the variables instance and solver).  The    *)
(* variable call records the last call made to it.                         *)
(***************************************************************************)
EXTENDS Integers, Sequences, FiniteSets, TLC

VARIABLES cls, check_data, data, file, prev, last, lastput, nops,
          sample, instance, solver, call

\* the variables of the stores of features/sample.py
storeVars == <<cls, check_data, data, file, prev, last, lastput, nops>>

\* the variables of the feature extraction of features.py
fxVars == <<sample, instance, solver, call>>

vars == <<cls, check_data, data, file, prev, last, lastput, nops,
          sample, instance, solver, call>>

(* ------------------------------ bounds -------------------------------- *)

\* number of put_* calls in one behaviour of Spec
MaxOps == 2

\* longest vector handed to put_vector in SpecVec
MaxLen == 2

(* --------------------------- Python values ---------------------------- *)

Scalar(t, b, n, str) == [t |-> t, b |-> b, n |-> n, s |-> str]

None == Scalar("None", FALSE, 0, "")

PyBool(b) == Scalar("bool", b, 0, "")

PyInt(n) == Scalar("int", FALSE, n, "")

\* 2**64, an int that no 64-bit integer holds, written by its digits
BigInt == Scalar("int", FALSE, 0, "18446744073709551616")

\* whether a number, as numpy reads it, fits a 64-bit integer
FitsInt64(e) == e.s = ""

PyFloat(n) == Scalar("float", FALSE, n, "")

Inf == Scalar("inf", FALSE, 1, "")

PyStr(str) == Scalar("str", FALSE, 0, str)

PyBytes(str) == Scalar("bytes", FALSE, 0, str)

\* a dict, which is no scalar
PyDict == Scalar("dict", FALSE, 0, "")

PyList(items) == [t |-> "list", items |-> items]

\* numpy.ndarray of one dimension: dtype and elements
NdArray(dtype, elems) == [t |-> "ndarray", dtype |-> dtype, data |-> elems]

\* scipy.sparse.coo_matrix
CooMatrix(shape, row, col, dat) ==
    [t |-> "coo_matrix", shape |-> shape, row |-> row, col |-> col, data |-> dat]

\* the outcome of a call that raised
Raised(exc) == [t |-> "raise", exc |-> exc]

IsRaised(r) == r.t = "raise"

IsFloat(x) == x.t \in {"float", "inf"}

(* ------------------------------ numpy --------------------------------- *)

\* dtype.kind of the dtypes that occur: bool, int64, int32, float64, float16,
\* fixed-width bytes, unicode, complex, and object
Kind(dtype) ==
    CASE dtype = "bool" -> "b"
      [] dtype \in {"int64", "int32"} -> "i"
      [] dtype \in {"float64", "float16"} -> "f"
      [] dtype = "S" -> "S"
      [] dtype = "U" -> "U"
      [] dtype = "complex128" -> "c"
      [] OTHER -> "O"

\* the elements a "for v in value" loop visits
Items(value) == IF value.t = "ndarray" THEN value.data ELSE value.items

\* isinstance(v, float) / isinstance(v, str) for an element of value: the
\* elements of an ndarray are numpy scalars, of which float64 derives from
\* float and str_ from str, while int64 and bool_ derive from neither int
\* nor bool
ElemIsFloat(value, e) ==
    IF value.t = "ndarray" THEN Kind(value.dtype) = "f" ELSE IsFloat(e)

ElemIsStr(value, e) ==
    IF value.t = "ndarray" THEN Kind(value.dtype) = "U" ELSE e.t = "str"

\* float16 spacing at magnitude n (11 significant bits)
HalfStep(n) ==
    IF n < 2048 THEN 1
    ELSE IF n < 4096 THEN 2
    ELSE IF n < 8192 THEN 4
    ELSE IF n < 16384 THEN 8
    ELSE IF n < 32768 THEN 16
    ELSE 32

\* round-to-nearest-even of the magnitude n to float16; 65504 is the largest
\* finite float16 and everything from 65520 on rounds to infinity
HalfMagnitude(n) ==
    LET step == HalfStep(n)
        q == n \div step
        r == n % step
        up == (2 * r > step) \/ (2 * r = step /\ q % 2 = 1)
    IN  (IF up THEN q + 1 ELSE q) * step

\* numpy.float16(n)
Half(n) ==
    LET m == IF n < 0 THEN 0 - n ELSE n
    IN  IF m >= 65520 THEN Inf
        ELSE PyFloat(IF n < 0 THEN 0 - HalfMagnitude(m) ELSE HalfMagnitude(m))

\* float(s) for the text of the model: none of it spells a number
ParseFloat(s) == Raised("ValueError")

\* one element of np.array(value, dtype=np.dtype("f2"))
ToHalf(e) ==
    CASE e.t = "bool" -> PyFloat(IF e.b THEN 1 ELSE 0)
      [] e.t = "int" -> Half(e.n)
      [] e.t = "float" -> Half(e.n)
      [] e.t = "inf" -> Inf
      [] e.t \in {"str", "bytes"} -> ParseFloat(e.s)
      [] OTHER -> Raised("TypeError")

\* str(e), as numpy spells an element it converts to a string dtype
Repr(e) ==
    CASE e.t = "bool" -> (IF e.b THEN "True" ELSE "False")
      [] e.t = "int" -> (IF FitsInt64(e) THEN ToString(e.n) ELSE e.s)
      [] e.t = "float" -> ToString(e.n) \o ".0"
      [] e.t = "inf" -> "inf"
      [] e.t \in {"str", "bytes"} -> e.s
      [] OTHER -> e.t

\* np.array([u if u is not None else b"" for u in value], dtype="S")
ToBytesArray(items) ==
    NdArray("S", [i \in 1..Len(items) |->
                    PyBytes(IF items[i].t = "None" THEN "" ELSE Repr(items[i]))])

\* np.array(value, dtype=np.dtype("f2")): an array, or the error of the
\* first element that does not convert
ToHalfArray(items) ==
    LET conv == [i \in 1..Len(items) |-> ToHalf(items[i])]
        bad == {i \in 1..Len(items) : IsRaised(conv[i])}
    IN  IF bad = {} THEN NdArray("float16", conv)
        ELSE conv[CHOOSE i \in bad : \A j \in bad : i <= j]

\* the dtype numpy.asarray infers for a list
InferDtype(items) ==
    LET ts == {items[i].t : i \in 1..Len(items)}
    IN  IF ts \cap {"None", "dict", "list"} # {} THEN "O"
        ELSE IF \E i \in 1..Len(items) : items[i].t = "int" /\ ~FitsInt64(items[i]) THEN "O"
        ELSE IF "str" \in ts THEN "U"
        ELSE IF "bytes" \in ts THEN "S"
        ELSE IF ts \cap {"float", "inf"} # {} THEN "float64"
        ELSE IF "int" \in ts THEN "int64"
        ELSE IF "bool" \in ts THEN "bool"
        ELSE "float64"

\* one element cast to an inferred dtype
CastTo(dtype, e) ==
    CASE dtype = "float64" /\ e.t = "bool" -> PyFloat(IF e.b THEN 1 ELSE 0)
      [] dtype = "float64" /\ e.t = "int" -> PyFloat(e.n)
      [] dtype = "int64" /\ e.t = "bool" -> PyInt(IF e.b THEN 1 ELSE 0)
      [] dtype = "U" -> PyStr(Repr(e))
      [] dtype = "S" -> PyBytes(Repr(e))
      [] OTHER -> e

\* numpy.asarray(value) for a list or an array
AsArray(value) ==
    IF value.t = "ndarray" THEN value
    ELSE LET dtype == InferDtype(value.items)
         IN  NdArray(dtype, [i \in 1..Len(value.items) |-> CastTo(dtype, value.items[i])])

(* ---------------------------- validation ------------------------------ *)

\* a validation that lets every value through
assert_is_scalar_AcceptsAll(value) == TRUE

\* Sample._assert_is_scalar: TRUE when the assertion passes
assert_is_scalar(value) ==
    \/ value.t = "None"
    \/ value.t \in {"str", "bool", "int", "float", "inf", "bytes"}

\* Sample._assert_is_vector
assert_is_vector(value) ==
    /\ value.t \in {"list", "ndarray"}
    /\ IF value.t = "ndarray"
       THEN Len(value.data) = 0 \/ Kind(value.dtype) \in {"f", "S", "U"}
       ELSE \A i \in 1..Len(value.items) : assert_is_scalar(value.items[i])

\* Sample._assert_supported
assert_supported(value) ==
    /\ value.t = "ndarray"
    /\ Kind(value.dtype) \in {"b", "i", "u", "f", "S"}

\* Sample._assert_is_sparse
assert_is_sparse(value) ==
    /\ value.t = "coo_matrix"
    /\ assert_supported(value.data)

(* ---------------------------- MemorySample ---------------------------- *)

\* the dictionary or file with nothing in it
EmptyMap == [k \in {} |-> None]

\* the outcome of a put_* call: the store after it and the exception it
\* raised ("" when it returned)
Outcome(st, exc) == [st |-> st, exc |-> exc]

\* MemorySample._get
MemorySample_get(d, key) == IF key \in DOMAIN d THEN d[key] ELSE None

\* MemorySample._put
MemorySample_put(d, key, value) ==
    [k \in DOMAIN d \cup {key} |-> IF k = key THEN value ELSE d[k]]

MemorySample_get_scalar(d, key) == MemorySample_get(d, key)

MemorySample_get_vector(d, key) == MemorySample_get(d, key)

MemorySample_get_array(d, key) == MemorySample_get(d, key)

MemorySample_get_sparse(d, key) == MemorySample_get(d, key)

\* put_scalar without its test for None: the null is stored like any value
MemorySample_put_scalar_StoresNone(d, chk, key, value) ==
    IF chk /\ ~assert_is_scalar(value) THEN Outcome(d, "AssertionError")
    ELSE Outcome(MemorySample_put(d, key, value), "")

MemorySample_put_scalar(d, chk, key, value) ==
    IF value = None THEN Outcome(d, "")
    ELSE IF chk /\ ~assert_is_scalar(value) THEN Outcome(d, "AssertionError")
    ELSE Outcome(MemorySample_put(d, key, value), "")

MemorySample_put_vector(d, chk, key, value) ==
    IF value = None THEN Outcome(d, "")
    ELSE IF chk /\ ~assert_is_vector(value) THEN Outcome(d, "AssertionError")
    ELSE Outcome(MemorySample_put(d, key, value), "")

MemorySample_put_array(d, key, value) ==
    IF value = None THEN Outcome(d, "")
    ELSE IF ~assert_supported(value) THEN Outcome(d, "AssertionError")
    ELSE Outcome(MemorySample_put(d, key, value), "")

MemorySample_put_sparse(d, key, value) ==
    IF value = None THEN Outcome(d, "")
    ELSE IF ~assert_is_sparse(value) THEN Outcome(d, "AssertionError")
    ELSE Outcome(MemorySample_put(d, key, value), "")

(* ----------------------------- Hdf5Sample ----------------------------- *)

Dataset(ndim, dtype, dat, gzip) ==
    [ndim |-> ndim, dtype |-> dtype, data |-> dat, gzip |-> gzip]

\* h5py.check_string_dtype(ds.dtype): fixed-width bytes and h5py's
\* variable-length strings are string dtypes
check_string_dtype(dtype) == dtype \in {"S", "vlen"}

\* del self.file[key]
DeleteKey(f, key) == [k \in DOMAIN f \ {key} |-> f[k]]

\* self.file.create_dataset(key, data=value[, compression="gzip"]): the
\* dataset h5py makes of value, or the error it raises.  A Python scalar
\* makes a 0-dimensional dataset (which takes no filter), a list or an array
\* a 1-dimensional one; object and unicode arrays, and so an int beyond 64
\* bits, have no HDF5 type.
create_dataset(value, compress) ==
    CASE value.t \in {"bool", "int", "float", "inf", "str", "bytes"} ->
            IF compress \/ (value.t = "int" /\ ~FitsInt64(value)) THEN Raised("TypeError")
            ELSE Dataset(0,
                         CASE value.t = "bool" -> "bool"
                           [] value.t = "int" -> "int64"
                           [] value.t = "str" -> "vlen"
                           [] value.t = "bytes" -> "S"
                           [] OTHER -> "float64",
                         <<value>>, FALSE)
      [] value.t \in {"list", "ndarray"} ->
            LET a == AsArray(value)
            IN  IF Kind(a.dtype) \in {"O", "U"} THEN Raised("TypeError")
                ELSE Dataset(1, a.dtype, a.data, compress)
      [] OTHER -> Raised("TypeError")

\* Hdf5Sample._put
Hdf5Sample_put(f, key, value, compress) ==
    LET f1 == IF key \in DOMAIN f THEN DeleteKey(f, key) ELSE f
        ds == create_dataset(value, compress)
    IN  IF "exc" \in DOMAIN ds
        THEN Outcome(f1, ds.exc)
        ELSE Outcome([k \in DOMAIN f1 \cup {key} |-> IF k = key THEN ds ELSE f1[k]], "")

\* Hdf5Sample.get_scalar
Hdf5Sample_get_scalar(f, key) ==
    IF key \notin DOMAIN f THEN None
    ELSE LET ds == f[key]
         IN  IF ds.ndim # 0 THEN Raised("AssertionError")
             ELSE IF check_string_dtype(ds.dtype) THEN PyStr(ds.data[1].s)
             ELSE ds.data[1]

\* get_vector that reads an empty string back as an empty string
Hdf5Sample_get_vector_NoSentinel(f, key) ==
    IF key \notin DOMAIN f THEN None
    ELSE LET ds == f[key]
         IN  IF ds.ndim # 1 THEN Raised("AssertionError")
             ELSE IF check_string_dtype(ds.dtype)
             THEN PyList([i \in 1..Len(ds.data) |-> PyStr(ds.data[i].s)])
             ELSE PyList(ds.data)

\* Hdf5Sample.get_vector
Hdf5Sample_get_vector(f, key) ==
    IF key \notin DOMAIN f THEN None
    ELSE LET ds == f[key]
         IN  IF ds.ndim # 1 THEN Raised("AssertionError")
             ELSE IF check_string_dtype(ds.dtype)
             THEN PyList([i \in 1..Len(ds.data) |->
                            IF Len(ds.data[i].s) > 0 THEN PyStr(ds.data[i].s) ELSE None])
             ELSE PyList(ds.data)

\* Hdf5Sample.put_scalar
Hdf5Sample_put_scalar(f, chk, key, value) ==
    IF value = None THEN Outcome(f, "")
    ELSE IF chk /\ ~assert_is_scalar(value) THEN Outcome(f, "AssertionError")
    ELSE Hdf5Sample_put(f, key, value, FALSE)

\* the loop of Hdf5Sample.put_vector: the value the first element that is a
\* str, None or a float turns the vector into, the vector itself when there
\* is none, or the error of the conversion
Coerce(value) ==
    LET items == Items(value)
        hits == {i \in 1..Len(items) :
                    \/ ElemIsStr(value, items[i])
                    \/ items[i].t = "None"
                    \/ ElemIsFloat(value, items[i])}
    IN  IF hits = {} THEN value
        ELSE LET i == CHOOSE i \in hits : \A j \in hits : i <= j
             IN  IF ElemIsStr(value, items[i]) \/ items[i].t = "None"
                 THEN ToBytesArray(items)
                 ELSE ToHalfArray(items)

\* put_vector whose null removes what the key holds
Hdf5Sample_put_vector_NoneDeletes(f, chk, key, value) ==
    IF value = None THEN Outcome(DeleteKey(f, key), "")
    ELSE IF chk /\ ~assert_is_vector(value) THEN Outcome(f, "AssertionError")
    ELSE IF value.t \notin {"list", "ndarray"} THEN Outcome(f, "TypeError")
    ELSE LET c == Coerce(value)
         IN  IF IsRaised(c) THEN Outcome(f, c.exc)
             ELSE Hdf5Sample_put(f, key, c, TRUE)

\* Hdf5Sample.put_vector; of the values the model hands it, the numbers are
\* the ones a for loop cannot iterate
Hdf5Sample_put_vector(f, chk, key, value) ==
    IF value = None THEN Outcome(f, "")
    ELSE IF chk /\ ~assert_is_vector(value) THEN Outcome(f, "AssertionError")
    ELSE IF value.t \notin {"list", "ndarray"} THEN Outcome(f, "TypeError")
    ELSE LET c == Coerce(value)
         IN  IF IsRaised(c) THEN Outcome(f, c.exc)
             ELSE Hdf5Sample_put(f, key, c, TRUE)

\* Hdf5Sample.put_array
Hdf5Sample_put_array(f, key, value) ==
    IF value = None THEN Outcome(f, "")
    ELSE IF ~assert_supported(value) THEN Outcome(f, "AssertionError")
    ELSE Hdf5Sample_put(f, key, value, TRUE)

\* Hdf5Sample.get_array: self.file[key][:], which a 0-dimensional dataset
\* refuses
Hdf5Sample_get_array(f, key) ==
    IF key \notin DOMAIN f THEN None
    ELSE IF f[key].ndim = 0 THEN Raised("ValueError")
    ELSE NdArray(f[key].dtype, f[key].data)

\* Hdf5Sample.put_sparse: the three put_array calls in turn, stopping at the
\* first that raises
Hdf5Sample_put_sparse(f, key, value) ==
    IF value = None THEN Outcome(f, "")
    ELSE IF ~assert_is_sparse(value) THEN Outcome(f, "AssertionError")
    ELSE LET r1 == Hdf5Sample_put_array(f, key \o "_row", value.row)
             r2 == Hdf5Sample_put_array(r1.st, key \o "_col", value.col)
             r3 == Hdf5Sample_put_array(r2.st, key \o "_data", value.data)
         IN  IF r1.exc # "" THEN r1
             ELSE IF r2.exc # "" THEN r2
             ELSE r3

\* one element of an index array cast to an integer
IndexOf(e) == IF e.t = "bool" THEN (IF e.b THEN 1 ELSE 0) ELSE e.n

\* the largest index of a non-empty index array
MaxIndex(elems) ==
    LET i == CHOOSE i \in 1..Len(elems) :
                \A j \in 1..Len(elems) : IndexOf(elems[j]) <= IndexOf(elems[i])
    IN  IndexOf(elems[i])

\* the integer index array numpy makes of a stored array
IndexArray(a) == NdArray("int32", [i \in 1..Len(a.data) |-> PyInt(IndexOf(a.data[i]))])

\* whether an array casts to an index array: numbers do, an infinity becomes
\* a negative index, which coo_matrix refuses
CastsToIndex(a) ==
    /\ Kind(a.dtype) \in {"b", "i", "f"}
    /\ \A i \in 1..Len(a.data) : a.data[i].t # "inf"

\* coo_matrix((data, (row, col))): the indices are cast to integers and the
\* shape is inferred from the largest index of each axis
coo_matrix(dat, row, col) ==
    IF ~CastsToIndex(row) \/ ~CastsToIndex(col) THEN Raised("ValueError")
    ELSE IF Len(row.data) # Len(col.data) \/ Len(row.data) # Len(dat.data)
    THEN Raised("ValueError")
    ELSE IF Len(row.data) = 0 THEN Raised("ValueError")
    ELSE CooMatrix(<<MaxIndex(row.data) + 1, MaxIndex(col.data) + 1>>,
                   IndexArray(row), IndexArray(col), dat)

\* Hdf5Sample.get_sparse
Hdf5Sample_get_sparse(f, key) ==
    LET row == Hdf5Sample_get_array(f, key \o "_row")
        col == Hdf5Sample_get_array(f, key \o "_col")
        dat == Hdf5Sample_get_array(f, key \o "_data")
    IN  IF row = None THEN None
        ELSE IF IsRaised(row) THEN row
        ELSE IF IsRaised(col) THEN col
        ELSE IF IsRaised(dat) THEN dat
        ELSE IF col = None \/ dat = None THEN Raised("AssertionError")
        ELSE coo_matrix(dat, row, col)

(* --------------------------- the state machine ------------------------ *)

\* the keys the caller uses; "K_row" is also the name Hdf5Sample gives the
\* row field of the sparse matrix stored under "K"
Keys == {"K", "K_row"}

Suffixes == {"_row", "_col", "_data"}

\* every name that can occur in the file
AllKeys == Keys \cup {k \o s : k \in Keys, s \in Suffixes}

\* the elements of the vectors
Elems == {None, PyBool(TRUE), PyInt(1), PyFloat(2049), PyFloat(70000), PyStr("a"), PyStr("")}

\* the lists of one to n elements
Lists(n) == {PyList(s) : s \in UNION {[1..m -> Elems] : m \in 1..n}}

IntArray == NdArray("int64", <<PyInt(0)>>)

FloatArray == NdArray("float64", <<PyFloat(2049)>>)

\* values handed to put_scalar: the scalars, and a list and a dict
ScalarInputs ==
    {None, PyBool(TRUE), PyInt(1), BigInt, PyFloat(2049), PyStr("a"), PyStr(""),
     PyBytes("a"), PyList(<<PyInt(1)>>), PyDict}

\* values handed to put_vector in Spec: lists of one element, two
\* arrays, a number and a list holding a dict
VectorInputs ==
    {None} \cup Lists(1) \cup {IntArray, FloatArray, PyInt(1), PyList(<<PyDict>>)}

\* values handed to put_array: arrays of a supported and of an unsupported
\* dtype, and a list
ArrayInputs ==
    {None, IntArray, FloatArray, NdArray("U", <<PyStr("a")>>), PyList(<<PyInt(0)>>)}

\* a 1x2 and a 2x2 matrix with the one entry (0, 1)
Coo(shape, dtype) ==
    CooMatrix(shape, NdArray("int32", <<PyInt(0)>>), NdArray("int32", <<PyInt(1)>>),
              NdArray(dtype, <<PyInt(7)>>))

\* values handed to put_sparse
SparseInputs ==
    {None, Coo(<<1, 2>>, "int64"), Coo(<<2, 2>>, "int64"), Coo(<<1, 2>>, "complex128"),
     PyList(<<PyInt(0)>>)}

\* the four get_* of the sample under cls
get_scalar(key) ==
    IF cls = "MemorySample" THEN MemorySample_get_scalar(data, key)
    ELSE Hdf5Sample_get_scalar(file, key)

get_vector(key) ==
    IF cls = "MemorySample" THEN MemorySample_get_vector(data, key)
    ELSE Hdf5Sample_get_vector(file, key)

get_array(key) ==
    IF cls = "MemorySample" THEN MemorySample_get_array(data, key)
    ELSE Hdf5Sample_get_array(file, key)

get_sparse(key) ==
    IF cls = "MemorySample" THEN MemorySample_get_sparse(data, key)
    ELSE Hdf5Sample_get_sparse(file, key)

\* the four put_* of the sample under cls, as outcomes
put_scalar(key, value) ==
    IF cls = "MemorySample" THEN MemorySample_put_scalar(data, check_data, key, value)
    ELSE Hdf5Sample_put_scalar(file, check_data, key, value)

put_vector(key, value) ==
    IF cls = "MemorySample" THEN MemorySample_put_vector(data, check_data, key, value)
    ELSE Hdf5Sample_put_vector(file, check_data, key, value)

put_array(key, value) ==
    IF cls = "MemorySample" THEN MemorySample_put_array(data, key, value)
    ELSE Hdf5Sample_put_array(file, key, value)

put_sparse(key, value) ==
    IF cls = "MemorySample" THEN MemorySample_put_sparse(data, key, value)
    ELSE Hdf5Sample_put_sparse(file, key, value)

\* no feature extraction under way: an empty features.Sample and no call
NoCall == [op |-> "init", arg |-> None, exc |-> "", result |-> None]

FxIdle ==
    /\ sample = EmptyMap
    /\ instance = None
    /\ solver = None
    /\ call = NoCall

\* MemorySample.__init__ with no data, Hdf5Sample.__init__ on an empty file
Init ==
    /\ cls \in {"MemorySample", "Hdf5Sample"}
    /\ check_data \in BOOLEAN
    /\ data = EmptyMap
    /\ file = EmptyMap
    /\ prev = [data |-> EmptyMap, file |-> EmptyMap]
    /\ last = [op |-> "init", kind |-> "", key |-> "", value |-> None, exc |-> "",
               result |-> None]
    /\ lastput = EmptyMap
    /\ nops = 0
    /\ FxIdle

\* a put_* call with outcome r: prev keeps the store as it was, last the
\* call, lastput the kind each key was last given a value of
DoPut(kind, key, value, r) ==
    /\ nops < MaxOps
    /\ nops' = nops + 1
    /\ prev' = [data |-> data, file |-> file]
    /\ IF cls = "MemorySample"
       THEN data' = r.st /\ UNCHANGED file
       ELSE file' = r.st /\ UNCHANGED data
    /\ last' = [op |-> "put", kind |-> kind, key |-> key, value |-> value, exc |-> r.exc,
                result |-> None]
    /\ lastput' = IF r.exc = "" /\ value # None
                  THEN [k \in DOMAIN lastput \cup {key} |->
                          IF k = key THEN kind ELSE lastput[k]]
                  ELSE lastput
    /\ UNCHANGED <<cls, check_data>>
    /\ UNCHANGED fxVars

\* a get_* call with result r
DoGet(kind, key, r) ==
    /\ last' = [op |-> "get", kind |-> kind, key |-> key, value |-> None,
                exc |-> IF IsRaised(r) THEN r.exc ELSE "", result |-> r]
    /\ prev' = [data |-> data, file |-> file]
    /\ UNCHANGED <<cls, check_data, data, file, lastput, nops>>
    /\ UNCHANGED fxVars

PutScalar(key, value) == DoPut("scalar", key, value, put_scalar(key, value))

PutVector(key, value) == DoPut("vector", key, value, put_vector(key, value))

PutArray(key, value) == DoPut("array", key, value, put_array(key, value))

PutSparse(key, value) == DoPut("sparse", key, value, put_sparse(key, value))

GetScalar(key) == DoGet("scalar", key, get_scalar(key))

GetVector(key) == DoGet("vector", key, get_vector(key))

GetArray(key) == DoGet("array", key, get_array(key))

GetSparse(key) == DoGet("sparse", key, get_sparse(key))

Next ==
    \E key \in Keys :
        \/ \E value \in ArrayInputs : PutArray(key, value)
        \/ \E value \in SparseInputs : PutSparse(key, value)
        \/ \E value \in ScalarInputs : PutScalar(key, value)
        \/ \E value \in VectorInputs : PutVector(key, value)
        \/ GetScalar(key)
        \/ GetVector(key)
        \/ GetArray(key)
        \/ GetSparse(key)

Spec == Init /\ [][Next]_vars

\* one put_vector of a list of one to MaxLen elements into a new sample,
\* and the gets that follow it
PutOneVector(key, value) == nops = 0 /\ PutVector(key, value)

NextVec ==
    \E key \in Keys :
        \/ \E value \in Lists(MaxLen) : PutOneVector(key, value)
        \/ GetVector(key)
        \/ GetScalar(key)
        \/ GetArray(key)

SpecVec == Init /\ [][NextVec]_vars

(* ------------------------ observing a sample -------------------------- *)

Kinds == {"scalar", "vector", "array", "sparse"}

\* get_<kind>(key) of a sample of class c holding d (MemorySample) or f
\* (Hdf5Sample)
Read(c, d, f, kind, key) ==
    IF c = "MemorySample"
    THEN CASE kind = "scalar" -> MemorySample_get_scalar(d, key)
           [] kind = "vector" -> MemorySample_get_vector(d, key)
           [] kind = "array" -> MemorySample_get_array(d, key)
           [] OTHER -> MemorySample_get_sparse(d, key)
    ELSE CASE kind = "scalar" -> Hdf5Sample_get_scalar(f, key)
           [] kind = "vector" -> Hdf5Sample_get_vector(f, key)
           [] kind = "array" -> Hdf5Sample_get_array(f, key)
           [] OTHER -> Hdf5Sample_get_sparse(f, key)

\* get_<kind>(key) now, and before the last call
Get(kind, key) == Read(cls, data, file, kind, key)

GetBefore(kind, key) == Read(cls, prev.data, prev.file, kind, key)

\* get_<kind>(key) after put_<kind0>(key, value) alone on a new sample of
\* the same class
GetOnNew(kind0, value, kind, key) ==
    IF cls = "MemorySample"
    THEN LET r == CASE kind0 = "scalar" -> MemorySample_put_scalar(EmptyMap, check_data, key, value)
                    [] kind0 = "vector" -> MemorySample_put_vector(EmptyMap, check_data, key, value)
                    [] kind0 = "array" -> MemorySample_put_array(EmptyMap, key, value)
                    [] OTHER -> MemorySample_put_sparse(EmptyMap, key, value)
         IN  Read(cls, r.st, EmptyMap, kind, key)
    ELSE LET r == CASE kind0 = "scalar" -> Hdf5Sample_put_scalar(EmptyMap, check_data, key, value)
                    [] kind0 = "vector" -> Hdf5Sample_put_vector(EmptyMap, check_data, key, value)
                    [] kind0 = "array" -> Hdf5Sample_put_array(EmptyMap, key, value)
                    [] OTHER -> Hdf5Sample_put_sparse(EmptyMap, key, value)
         IN  Read(cls, EmptyMap, r.st, kind, key)

\* every get on every key returns what it returned before the last call
NothingChanged ==
    \A key \in AllKeys : \A kind \in Kinds : Get(kind, key) = GetBefore(kind, key)

\* the last call was put_<kind>(key, value) for some key
LastPut(kind) == last.op = "put" /\ last.kind = kind

\* the sample was new when the last call was made
WasNew == prev.data = EmptyMap /\ prev.file = EmptyMap

Abs(n) == IF n < 0 THEN 0 - n ELSE n

(* ------------------------------- C1 ----------------------------------- *)

\* the values the store declares valid: a scalar is null, a bool, text, a
\* (64-bit) integer or a real; a vector is a list of elements of one
\* declared kind (bool | text | integer-or-real | optional text); an array
\* has a supported dtype
ValidScalar(v) == v.t \in {"None", "bool", "str", "int", "float"} /\ FitsInt64(v)

ValidVector(v) ==
    /\ v.t = "list"
    /\ LET ts == {v.items[i].t : i \in 1..Len(v.items)}
       IN  \/ ts \subseteq {"bool"}
           \/ ts \subseteq {"int", "float"}
           \/ ts \subseteq {"str", "None"}

ValidArray(v) == v.t = "ndarray" /\ Kind(v.dtype) \in {"b", "i", "u", "f", "S"}

\* r equals the element x up to the declared losses: a number read back is
\* finite and within half precision (one part in 2048) of the one written,
\* an empty text may come back as null
SameElement(x, r) ==
    CASE x.t \in {"int", "float"} ->
            r.t \in {"int", "float"} /\ 2048 * Abs(r.n - x.n) <= Abs(x.n)
      [] x.t = "str" /\ x.s = "" -> r \in {x, None}
      [] OTHER -> r = x

SameVector(x, r) ==
    /\ r.t = "list"
    /\ Len(r.items) = Len(x.items)
    /\ \A i \in 1..Len(x.items) : SameElement(x.items[i], r.items[i])

\* C1: round trip.  After put_<kind>(k, v) of a valid scalar, vector or
\* array v on a new sample (one that validates its input), the put has
\* returned and get_<kind>(k) equals v, up to half-precision loss of the
\* numbers of a vector and the null / empty-string mapping of its text.
C1_RoundTrip ==
    /\ (check_data /\ LastPut("scalar") /\ WasNew /\ ValidScalar(last.value))
          => last.exc = "" /\ Get("scalar", last.key) = last.value
    /\ (check_data /\ LastPut("vector") /\ WasNew /\ ValidVector(last.value))
          => last.exc = "" /\ SameVector(last.value, Get("vector", last.key))
    /\ (check_data /\ LastPut("array") /\ WasNew /\ ValidArray(last.value))
          => last.exc = "" /\ Get("array", last.key) = last.value

(* ------------------------------- C2 ----------------------------------- *)

\* key was never written: no put was given it, nor a key whose sparse field
\* it names
NeverWritten(key) ==
    /\ key \notin DOMAIN lastput
    /\ \A k \in DOMAIN lastput : \A s \in Suffixes : key # k \o s

\* C2: every get on a key that was never written returns None, and does not
\* raise.
C2_AbsentKeyReadsNone ==
    \A key \in AllKeys :
        NeverWritten(key) => \A kind \in Kinds : Get(kind, key) = None

(* ------------------------------- C3 ----------------------------------- *)

\* C3: overwriting replaces the full value.  When key k alone has ever been
\* written, then after a put of a non-null value on k every get on k
\* returns what it returns after that put alone on a new sample: nothing of
\* what k held before remains.
C3_OverwriteReplaces ==
    (/\ last.op = "put"
     /\ last.exc = ""
     /\ last.value # None
     /\ DOMAIN lastput \subseteq {last.key})
        => \A kind \in Kinds :
              Get(kind, last.key) = GetOnNew(last.kind, last.value, kind, last.key)

(* ------------------------------- C4 ----------------------------------- *)

\* C4 as stated: after put_scalar(k, null) the call has returned and
\* get_scalar(k) returns null, whatever k held.
C4_NullScalarIsStored ==
    (LastPut("scalar") /\ last.value = None)
        => last.exc = "" /\ Get("scalar", last.key) = None

\* C4 as amended: put_scalar(k, null) returns without error and stores
\* nothing; every get on every key, get_scalar(k) included, returns what it
\* returned before the call.
C4_NullScalarIsNoOp ==
    (LastPut("scalar") /\ last.value = None) => last.exc = "" /\ NothingChanged

\* put_scalar(k, null) was called on a key holding a scalar, which it still
\* holds
C4_Witness ==
    /\ LastPut("scalar")
    /\ last.value = None
    /\ last.key \in DOMAIN lastput
    /\ lastput[last.key] = "scalar"
    /\ Get("scalar", last.key) \notin {None, Raised("AssertionError")}

(* ------------------------------- C5 ----------------------------------- *)

\* C5: a key holds a value of one kind only.  A get of another kind than
\* the one the key was last written with returns None or raises; it never
\* returns the value.
C5_OneKindPerKey ==
    \A key \in DOMAIN lastput :
        \A kind \in Kinds \ {lastput[key]} :
            Get(kind, key) = None \/ IsRaised(Get(kind, key))

(* ------------------------------- C6 ----------------------------------- *)

\* C6: put_vector(k, null) raises nothing and leaves the result of every
\* get on every key as it was.
C6_NullVectorIsNoOp ==
    (LastPut("vector") /\ last.value = None) => last.exc = "" /\ NothingChanged

\* put_vector(k, null) was called on an Hdf5Sample whose key k holds a
\* vector
C6_Witness ==
    /\ cls = "Hdf5Sample"
    /\ LastPut("vector")
    /\ last.value = None
    /\ last.key \in DOMAIN prev.file
    /\ Get("vector", last.key).t = "list"

(* ------------------------------- C7 ----------------------------------- *)

\* what each put accepts by its contract: a scalar is null, a bool, text
\* (str or bytes), an integer or a real; a vector is null or a list or
\* array of such scalars; an array is null or has a dtype of kind bool,
\* integer, float or fixed-width text; a sparse matrix is null or a
\* coordinate matrix whose data is such an array
IsScalar(v) == v.t \in {"None", "bool", "str", "bytes", "int", "float", "inf"}

Acceptable(kind, v) ==
    CASE kind = "scalar" -> IsScalar(v)
      [] kind = "vector" ->
            \/ v = None
            \/ v.t = "list" /\ \A i \in 1..Len(v.items) : IsScalar(v.items[i])
            \/ v.t = "ndarray" /\ Kind(v.dtype) \in {"b", "i", "u", "f", "S", "U"}
      [] kind = "array" -> v = None \/ ValidArray(v)
      [] OTHER -> v = None \/ (v.t = "coo_matrix" /\ ValidArray(v.data))

\* C7 as stated: every put of a value its contract does not accept raises,
\* in both stores and whatever check_data is.
C7_AlwaysValidated ==
    (last.op = "put" /\ ~Acceptable(last.kind, last.value)) => last.exc # ""

\* C7 as amended: put_array and put_sparse always, and put_scalar and
\* put_vector of a sample made with check_data on, raise an assertion error
\* for every value their contract does not accept, before anything is
\* stored.
C7_ValidatedWhenChecked ==
    (/\ last.op = "put"
     /\ ~Acceptable(last.kind, last.value)
     /\ (check_data \/ last.kind \in {"array", "sparse"}))
        => last.exc = "AssertionError" /\ NothingChanged

\* a checked put_scalar has rejected a value that is no scalar
C7_Witness ==
    /\ check_data
    /\ LastPut("scalar")
    /\ ~Acceptable("scalar", last.value)
    /\ last.exc = "AssertionError"

(* ------------------------------- C8 ----------------------------------- *)

\* C8: a put that raises leaves the result of every get on every key as it
\* was before the call (stated of the samples that validate their input).
C8_FailedPutChangesNothing ==
    (check_data /\ last.op = "put" /\ last.exc # "") => NothingChanged

(* ------------------------------- C9 ----------------------------------- *)

\* the types of the elements of a list
TypesOf(v) == {v.items[i].t : i \in 1..Len(v.items)}

\* C9: Hdf5Sample.put_vector picks the encoding from the whole vector,
\* whatever the order of its elements.  A list of scalars with a text or
\* null element is stored as fixed-width byte strings, null as the empty
\* string; otherwise one with a real element is stored at half precision;
\* a list of integers or booleans is stored as it is.  (Stated of the
\* samples that validate their input.)
C9_EncodingFromWholeVector ==
    (/\ cls = "Hdf5Sample"
     /\ check_data
     /\ LastPut("vector")
     /\ last.value.t = "list"
     /\ Len(last.value.items) > 0
     /\ \A i \in 1..Len(last.value.items) : IsScalar(last.value.items[i]))
        => /\ last.exc = ""
           /\ last.key \in DOMAIN file
           /\ LET ts == TypesOf(last.value)
                  ds == file[last.key]
              IN  IF ts \cap {"str", "None"} # {}
                  THEN /\ ds.dtype = "S"
                       /\ \A i \in 1..Len(last.value.items) :
                             last.value.items[i] = None => ds.data[i].s = ""
                  ELSE IF ts \cap {"float", "inf"} # {}
                  THEN ds.dtype = "float16"
                  ELSE ds.dtype \in {"int64", "bool"} /\ ds.data = AsArray(last.value).data

(* ------------------------------- C10 ---------------------------------- *)

\* a list, not empty, of text and null elements
IsOptionalText(v) == v.t = "list" /\ Len(v.items) > 0 /\ TypesOf(v) \subseteq {"str", "None"}

ValidSparse(v) == v.t = "coo_matrix" /\ Kind(v.data.dtype) \in {"b", "i", "u", "f", "S"}

\* C11: sparse round trip in Hdf5Sample.  put_sparse(K, M) of a valid sparse
\* matrix M on a new sample writes the three fields K_row, K_col and K_data,
\* and get_sparse(K) then returns a coordinate-format matrix with the shape,
\* the row and column indices and the data of M.
C11_SparseRoundTrip ==
    (cls = "Hdf5Sample" /\ LastPut("sparse") /\ WasNew /\ ValidSparse(last.value))
        => /\ last.exc = ""
           /\ {last.key \o x : x \in Suffixes} \subseteq DOMAIN file
           /\ LET r == Get("sparse", last.key)
              IN  /\ r.t = "coo_matrix"
                  /\ r.shape = last.value.shape
                  /\ r.row = last.value.row
                  /\ r.col = last.value.col
                  /\ r.data = last.value.data

(* --------------------------- RaggedPacker ----------------------------- *)
(* The packer of vector-lists, from the design (section 4.4, RaggedPacker). *)

\* most rows of a vector-list handed to the packer
MaxRows == 3

\* the store variables of a behaviour that uses no store
StoreIdle ==
    /\ cls = "MemorySample"
    /\ check_data = TRUE
    /\ data = EmptyMap
    /\ file = EmptyMap
    /\ prev = [data |-> EmptyMap, file |-> EmptyMap]
    /\ last = [op |-> "init", kind |-> "", key |-> "", value |-> None, exc |-> "",
               result |-> None]
    /\ lastput = EmptyMap
    /\ nops = 0

\* step 1: the length of an entry, or -1 if it is null
RowLength(row) == IF row = None THEN -1 ELSE Len(row.items)

Max(S) == CHOOSE x \in S : \A y \in S : y <= x

\* step 3: the fill constant of an element kind
FillOf(e) ==
    CASE e.t = "int" -> PyInt(0)
      [] e.t = "float" -> PyFloat(0)
      [] OTHER -> PyStr("")

\* the padded matrix and the side-array of lengths
Packed(rows, lengths) == [t |-> "packed", rows |-> rows, lengths |-> lengths]

\* steps 1 to 6: pack a list of optional vectors; a hard error if every
\* entry is null or empty
pack(V) ==
    LET n == Len(V.items)
        lengths == [i \in 1..n |-> RowLength(V.items[i])]
        nonempty == {i \in 1..n : lengths[i] > 0}
    IN  IF nonempty = {} THEN Raised("ValueError")
        ELSE LET maxlen == Max({lengths[i] : i \in nonempty})
                 first == CHOOSE i \in nonempty : \A j \in nonempty : i <= j
                 fill == FillOf(V.items[first].items[1])
                 Row(i) == [j \in 1..maxlen |->
                              IF j <= lengths[i] THEN V.items[i].items[j] ELSE fill]
             IN  Packed([i \in 1..n |-> Row(i)], lengths)

\* crop, with a null row read back as an empty one
crop_NullAsEmpty(P) ==
    PyList([i \in 1..Len(P.rows) |->
              IF P.lengths[i] < 0 THEN PyList(<<>>)
              ELSE PyList(SubSeq(P.rows[i], 1, P.lengths[i]))])

\* the inverse: null for a negative length, else the first length[i]
\* elements of row i
crop(P) ==
    PyList([i \in 1..Len(P.rows) |->
              IF P.lengths[i] < 0 THEN None
              ELSE PyList(SubSeq(P.rows[i], 1, P.lengths[i]))])

\* the element kinds the packer supports (integer, real, text), each with
\* its fill constant among the elements
PackKinds == {{PyInt(0), PyInt(1)}, {PyFloat(0), PyFloat(1)}, {PyStr(""), PyStr("a")}}

\* the optional vectors of at most MaxLen elements of E
OptVectors(E) == {None} \cup {PyList(q) : q \in UNION {[1..m -> E] : m \in 0..MaxLen}}

\* the vector-list [[1,2,3], None, [4,5]]
ScenarioB ==
    PyList(<<PyList(<<PyInt(1), PyInt(2), PyInt(3)>>), None, PyList(<<PyInt(4), PyInt(5)>>)>>)

\* pack a vector-list
Pack(V) ==
    /\ LET r == pack(V)
       IN  call' = [op |-> "pack", arg |-> V,
                    exc |-> IF IsRaised(r) THEN r.exc ELSE "",
                    result |-> IF IsRaised(r) THEN None ELSE r]
    /\ UNCHANGED <<sample, instance, solver>>
    /\ UNCHANGED storeVars

\* crop what the last call packed
Crop ==
    /\ call.op = "pack"
    /\ call.exc = ""
    /\ call' = [op |-> "crop", arg |-> call.arg, exc |-> "", result |-> crop(call.result)]
    /\ UNCHANGED <<sample, instance, solver>>
    /\ UNCHANGED storeVars

InitPack == StoreIdle /\ FxIdle

\* one vector-list is packed, then cropped: a list of one to MaxRows
\* optional vectors of one element kind, or the list of scenario B
NextPack ==
    \/ /\ call.op = "init"
       /\ \E E \in PackKinds : \E r \in 1..MaxRows :
             \E v \in [1..r -> OptVectors(E)] : Pack(PyList(v))
    \/ (call.op = "init" /\ Pack(ScenarioB))
    \/ Crop

SpecPack == InitPack /\ [][NextPack]_vars

(* ------------------------------- C12 ---------------------------------- *)

\* a vector-list with at least one non-empty entry
HasNonEmptyEntry(V) == \E i \in 1..Len(V.items) : RowLength(V.items[i]) > 0

\* C12: ragged pack/crop round trip.  For a vector-list V of optional
\* vectors with at least one non-empty entry, pack succeeds, gives every
\* row the length maxlen, records the length of every present row and -1
\* for a null row, which becomes a row of the fill constant; and crop of
\* what pack made is V again, a null entry null and an empty entry empty.
C12_PackCropRoundTrip ==
    /\ (call.op = "pack" /\ HasNonEmptyEntry(call.arg))
         => /\ call.exc = ""
            /\ LET V == call.arg.items
                   P == call.result
               IN  /\ Len(P.rows) = Len(V) /\ Len(P.lengths) = Len(V)
                   /\ \A i \in 1..Len(V) :
                        /\ Len(P.rows[i]) = Max({RowLength(V[j]) : j \in 1..Len(V)})
                        /\ P.lengths[i] = (IF V[i] = None THEN -1 ELSE Len(V[i].items))
                        /\ V[i] = None =>
                             \A j \in 1..Len(P.rows[i]) :
                                P.rows[i][j] \in {PyInt(0), PyFloat(0), PyStr("")}
    /\ (call.op = "crop" /\ HasNonEmptyEntry(call.arg))
         => /\ call.result = call.arg
            /\ \A i \in 1..Len(call.arg.items) :
                 (call.arg.items[i] = None) <=> (call.result.items[i] = None)

\* a vector-list with a null entry and an empty entry has been packed and
\* cropped
C12_Witness ==
    /\ call.op = "crop"
    /\ \E i, j \in 1..Len(call.arg.items) :
         /\ call.arg.items[i] = None
         /\ call.arg.items[j] = PyList(<<>>)
    /\ HasNonEmptyEntry(call.arg)

(* ------------------------ features.py: numbers ------------------------ *)
(* A Python float is a record [t, c, num, den, e]: c is "fin", "inf" or    *)
(* "nan"; a finite float is (num / den) * 10^e with den > 0, an infinity   *)
(* has its sign in num.  The exponents in use are multiples of 10 and the  *)
(* mantissas num / den stay far below 10^10 in magnitude, so that of two   *)
(* finite floats of one sign the one with the larger exponent is the       *)
(* larger, and a sum of two floats of different exponents is the one of    *)
(* the larger exponent (the smaller is below the precision of a double).   *)

Float(c, num, den, e) == [t |-> "float", c |-> c, num |-> num, den |-> den, e |-> e]

\* the float of an integer, and of the integer times 10^e
F(n) == Float("fin", n, 1, 0)

FE(n, e) == Float("fin", n, 1, IF n = 0 THEN 0 ELSE e)

PosInf == Float("inf", 1, 1, 0)

NegInf == Float("inf", -1, 1, 0)

NaN == Float("nan", 0, 1, 0)

\* math.isfinite; an int or a bool is finite, and so is the logarithm of a
\* finite float (c = "log": the float log((num / den) * 10^e))
isfinite(x) == IF x.t = "float" THEN x.c \in {"fin", "log"} ELSE TRUE

\* the float of a number (float, int or bool)
AsFloat(x) ==
    CASE x.t = "float" -> x
      [] x.t = "bool" -> F(IF x.b THEN 1 ELSE 0)
      [] OTHER -> F(x.n)

\* -1, 0 or 1: the sign of a float that is not NaN
Sgn(x) == IF x.num > 0 THEN 1 ELSE IF x.num < 0 THEN -1 ELSE 0

\* a < b for two finite floats of the same non-zero sign sg
LtSameSign(a, b, sg) ==
    IF a.e # b.e THEN (IF sg > 0 THEN a.e < b.e ELSE b.e < a.e)
    ELSE a.num * b.den < b.num * a.den

\* Python's a < b on numbers: false when either is NaN
Lt(x, y) ==
    LET a == AsFloat(x)
        b == AsFloat(y)
    IN  IF a.c = "nan" \/ b.c = "nan" THEN FALSE
        ELSE IF a.c = "inf" THEN a.num < 0 /\ ~(b.c = "inf" /\ b.num < 0)
        ELSE IF b.c = "inf" THEN b.num > 0
        ELSE IF Sgn(a) # Sgn(b) THEN Sgn(a) < Sgn(b)
        ELSE IF Sgn(a) = 0 THEN FALSE
        ELSE LtSameSign(a, b, Sgn(a))

RECURSIVE GCD(_, _)
GCD(a, b) == IF b = 0 THEN a ELSE GCD(b, a % b)

\* the finite float (num / den) * 10^e in lowest terms, den # 0
Ratio(num, den, e) ==
    IF num = 0 THEN F(0)
    ELSE LET g == GCD(Abs(num), Abs(den))
             sg == IF den < 0 THEN -1 ELSE 1
         IN  Float("fin", sg * (num \div g), sg * (den \div g), e)

\* -a, abs(a)
Neg(a) == [a EXCEPT !.num = 0 - a.num]

fabs(a) == [a EXCEPT !.num = Abs(a.num)]

\* a + b on floats: NaN if either is, or for inf + -inf; of two finite
\* floats of different exponents the larger takes the smaller in
Add(a, b) ==
    IF a.c = "nan" \/ b.c = "nan" THEN NaN
    ELSE IF a.c = "inf" THEN (IF b.c = "inf" /\ b.num # a.num THEN NaN ELSE a)
    ELSE IF b.c = "inf" THEN b
    ELSE IF a.num = 0 THEN b
    ELSE IF b.num = 0 THEN a
    ELSE IF a.e > b.e THEN a
    ELSE IF b.e > a.e THEN b
    ELSE Ratio(a.num * b.den + b.num * a.den, a.den * b.den, a.e)

Sub(a, b) == Add(a, Neg(b))

\* a / b on floats, b a numpy float: a / 0.0 is NaN for a zero and else an
\* infinity of the sign of a
Div(a, b) ==
    IF a.c = "nan" \/ b.c = "nan" THEN NaN
    ELSE IF b.c # "inf" /\ b.num = 0
    THEN (IF a.num = 0 THEN NaN ELSE Float("inf", Sgn(a), 1, 0))
    ELSE IF a.c = "inf" THEN (IF b.c = "inf" THEN NaN
                              ELSE Float("inf", a.num * Sgn(b), 1, 0))
    ELSE IF b.c = "inf" THEN F(0)
    ELSE Ratio(a.num * b.den, a.den * b.num, a.e - b.e)

\* numpy.sign: NaN for NaN, else -1.0, 0.0 or 1.0
sign(x) == IF x.c = "nan" THEN NaN ELSE F(Sgn(x))

\* numpy.floor and numpy.ceil: a float of a positive exponent is a whole
\* number, one of a negative exponent lies strictly between -1 and 1
floor(x) ==
    IF x.c # "fin" THEN x
    ELSE IF x.e > 0 THEN x
    ELSE IF x.e < 0 THEN (IF x.num > 0 THEN F(0) ELSE F(-1))
    ELSE F(x.num \div x.den)

ceil(x) ==
    IF x.c # "fin" THEN x
    ELSE IF x.e > 0 THEN x
    ELSE IF x.e < 0 THEN (IF x.num > 0 THEN F(1) ELSE F(0))
    ELSE F(0 - ((0 - x.num) \div x.den))

\* math.log of a float above 0.001
log(x) == IF x.c = "inf" THEN PosInf ELSE Float("log", x.num, x.den, x.e)

\* Python's min(a, b) and max(a, b): the first argument unless the second
\* is smaller (larger)
min(a, b) == IF Lt(b, a) THEN b ELSE a

max(a, b) == IF Lt(a, b) THEN b ELSE a

\* the bound 1e20 of the clamp, as the exponent of 10
ClampExp == 20

\* _clipf, leaving a value that is not finite as it is
clipf_NoClamp(vi) == vi

\* _clipf
clipf(vi) ==
    IF ~isfinite(vi) THEN max(min(vi, FE(1, ClampExp)), FE(-1, ClampExp))
    ELSE vi

(* ------------------------ features.py: Sample ------------------------- *)

\* features.Sample.get: the value of the key, or None
Sample_get(smp, key) == IF key \in DOMAIN smp THEN smp[key] ELSE None

\* features.Sample.put
Sample_put(smp, key, value) ==
    [k \in DOMAIN smp \cup {key} |-> IF k = key THEN value ELSE smp[k]]

(* ----------------------- features.py: _combine ------------------------ *)

\* an entry's part of the row, with a zero standing for an entry that is None
Contribution_Placeholder(entry) ==
    IF entry = None THEN <<F(0)>>
    ELSE IF entry.t = "list" THEN [j \in 1..Len(entry.items) |-> clipf(entry.items[j])]
    ELSE <<clipf(entry)>>

\* what one entry of a series adds to its row: nothing if it is None, its
\* clamped elements if it is a list, else the clamped value
Contribution(entry) ==
    IF entry = None THEN <<>>
    ELSE IF entry.t = "list" THEN [j \in 1..Len(entry.items) |-> clipf(entry.items[j])]
    ELSE <<clipf(entry)>>

\* the loop over a series, with every row taking the entry of the first
\* entity
Extend_FirstEntry(combined, series) ==
    [i \in 1..Len(combined) |->
        IF i <= Len(series) THEN combined[i] \o Contribution(series[1]) ELSE combined[i]]

\* the loop over a series: entry i is added to row i
Extend(combined, series) ==
    [i \in 1..Len(combined) |->
        IF i <= Len(series) THEN combined[i] \o Contribution(series[i]) ELSE combined[i]]

\* a value math.isfinite takes: a float, an int or a bool
IsNumber(x) == x.t \in {"float", "int", "bool"}

\* whether _clipf takes every value of the series; isfinite raises a
\* TypeError on any other
ClipfTakes(series) ==
    \A i \in 1..Len(series) :
        \/ series[i] = None
        \/ IsNumber(series[i])
        \/ /\ series[i].t = "list"
           /\ \A j \in 1..Len(series[i].items) : IsNumber(series[i].items[j])

\* the loop over attrs, from the rows made so far; combined[i] of a row
\* that does not exist is an IndexError
RECURSIVE combine_from(_, _, _)
combine_from(smp, attrs, combined) ==
    IF attrs = <<>> THEN PyList([i \in 1..Len(combined) |-> PyList(combined[i])])
    ELSE LET series == Sample_get(smp, Head(attrs))
         IN  IF series = None THEN combine_from(smp, Tail(attrs), combined)
             ELSE LET rows == IF Len(combined) = 0
                              THEN [i \in 1..Len(series.items) |-> <<>>]
                              ELSE combined
                  IN  IF Len(series.items) > Len(rows) THEN Raised("IndexError")
                      ELSE IF ~ClipfTakes(series.items) THEN Raised("TypeError")
                      ELSE combine_from(smp, Tail(attrs), Extend(rows, series.items))

\* FeaturesExtractor._combine
combine(smp, attrs) == combine_from(smp, attrs, <<>>)

\* most entities (variables, constraints) of a sample
MaxEntities == 2

\* three keys of the after-load sample: two that extract_after_load_features
\* combines into var_features, and the names
CombineKeys == {"var_features_user", "var_lower_bounds", "var_names"}

\* the entries of the series under a key: a bound is a number (1.0, NaN,
\* 1e30) or None, the user features of a variable are None or a list of
\* numbers ([] and [inf, 2.0]), a name is text
SeriesEntries(key) ==
    CASE key = "var_lower_bounds" -> {None, F(1), NaN, FE(1, 30)}
      [] key = "var_features_user" -> {None, PyList(<<>>), PyList(<<PosInf, F(2)>>)}
      [] OTHER -> {PyStr("x")}

\* the key lists handed to _combine: one or two keys, in any order
AttrLists == UNION {[1..m -> CombineKeys] : m \in 1..2}

\* sample.put(key, series) of a series of at most MaxEntities entries, under
\* a key the sample does not hold yet
SamplePut(key, series) ==
    /\ call.op = "init"
    /\ key \notin DOMAIN sample
    /\ sample' = Sample_put(sample, key, PyList(series))
    /\ UNCHANGED <<instance, solver, call>>
    /\ UNCHANGED storeVars

\* self._combine(sample, attrs)
Combine(attrs) ==
    /\ call.op = "init"
    /\ LET r == combine(sample, attrs)
       IN  call' = [op |-> "combine",
                    arg |-> PyList([i \in 1..Len(attrs) |-> PyStr(attrs[i])]),
                    exc |-> IF IsRaised(r) THEN r.exc ELSE "",
                    result |-> IF IsRaised(r) THEN None ELSE r]
    /\ UNCHANGED <<sample, instance, solver>>
    /\ UNCHANGED storeVars

InitCombine == StoreIdle /\ FxIdle

NextCombine ==
    \/ \E key \in CombineKeys : \E n \in 0..MaxEntities :
          \E series \in [1..n -> SeriesEntries(key)] : SamplePut(key, series)
    \/ \E attrs \in AttrLists : Combine(attrs)

SpecCombine == InitCombine /\ [][NextCombine]_vars

(* --------------------- features.py: user features --------------------- *)
(* The Instance is a record of what its methods return: the dictionaries   *)
(* var_categories, var_features, constr_categories and constr_features     *)
(* (functions whose domain is the set of names with an entry), the set     *)
(* lazy of the constraints is_constraint_lazy holds of, has_static_lazy    *)
(* and instance_features.  The solver is a record of the lists it returns. *)

\* isinstance(category, collections.Hashable): a list, a dict and an array
\* are not
Hashable(v) == v.t \notin {"list", "dict", "ndarray"}

\* isinstance(v, numbers.Real): a float, an int or a bool
IsReal(v) == v.t \in {"float", "int", "bool"}

\* numpy.ndarray.tolist
tolist(a) == PyList(a.data)

\* the outcome of a step of the extraction: the sample it leaves, the
\* exception it raised ("" if none) and the entity the message names
FxOutcome(smp, exc, msg) == [smp |-> smp, exc |-> exc, msg |-> msg]

\* the features registered for an entity, whatever they are
UserFeaturesOf_Unchecked(dict, name) ==
    IF name \notin DOMAIN dict THEN None
    ELSE IF dict[name].t = "ndarray" THEN tolist(dict[name])
    ELSE dict[name]

\* the features registered for an entity, as a list of numbers: None when
\* there are none, an AssertionError when they are not a list (an array is
\* converted) or hold an element that is not a real number
UserFeaturesOf(dict, name) ==
    IF name \notin DOMAIN dict THEN None
    ELSE LET uf == IF dict[name].t = "ndarray" THEN tolist(dict[name]) ELSE dict[name]
         IN  IF uf.t # "list" THEN Raised("AssertionError")
             ELSE IF \E j \in 1..Len(uf.items) : ~IsReal(uf.items[j])
             THEN Raised("AssertionError")
             ELSE uf

\* what the loops append for one entity: its category, its features, its
\* lazy flag (a sequence of none or one), or the exception raised at it
Entry(cat, feat, lazy, exc) == [cat |-> cat, feat |-> feat, lazy |-> lazy, exc |-> exc]

\* the body of _extract_user_features_vars, with the features of a variable
\* kept when it has no category
VarEntry_KeepsFeatures(inst, var_name) ==
    LET uf == UserFeaturesOf(inst.var_features, var_name)
    IN  IF var_name \notin DOMAIN inst.var_categories
        THEN Entry(None, IF IsRaised(uf) THEN None ELSE uf, <<>>, "")
        ELSE IF ~Hashable(inst.var_categories[var_name])
        THEN Entry(None, None, <<>>, "AssertionError")
        ELSE IF IsRaised(uf) THEN Entry(None, None, <<>>, uf.exc)
        ELSE Entry(inst.var_categories[var_name], uf, <<>>, "")

\* the body of the loop of _extract_user_features_vars
VarEntry(inst, var_name) ==
    IF var_name \notin DOMAIN inst.var_categories THEN Entry(None, None, <<>>, "")
    ELSE LET category == inst.var_categories[var_name]
             uf == UserFeaturesOf(inst.var_features, var_name)
         IN  IF ~Hashable(category) THEN Entry(None, None, <<>>, "AssertionError")
             ELSE IF IsRaised(uf) THEN Entry(None, None, <<>>, uf.exc)
             ELSE Entry(category, uf, <<>>, "")

\* the body of the loop of _extract_user_features_constrs: the category is
\* the name unless the dictionary has one; with a None category the loop
\* goes on before it appends a lazy flag
ConstrEntry(inst, cname) ==
    LET category == IF cname \in DOMAIN inst.constr_categories
                    THEN inst.constr_categories[cname]
                    ELSE PyStr(cname)
        cf == UserFeaturesOf(inst.constr_features, cname)
    IN  IF category = None THEN Entry(None, None, <<>>, "")
        ELSE IF ~Hashable(category) THEN Entry(None, None, <<>>, "AssertionError")
        ELSE IF IsRaised(cf) THEN Entry(None, None, <<>>, cf.exc)
        ELSE Entry(category, cf,
                   <<PyBool(IF inst.has_static_lazy THEN cname \in inst.lazy ELSE FALSE)>>,
                   "")

\* the index of the first entry that raised, 0 if none did
FirstRaised(entries) ==
    IF \A i \in 1..Len(entries) : entries[i].exc = "" THEN 0
    ELSE CHOOSE i \in 1..Len(entries) :
            /\ entries[i].exc # ""
            /\ \A j \in 1..(i - 1) : entries[j].exc = ""

\* the lazy flags appended, in order
RECURSIVE LazyFlags(_)
LazyFlags(entries) ==
    IF entries = <<>> THEN <<>> ELSE Head(entries).lazy \o LazyFlags(Tail(entries))

\* FeaturesExtractor._extract_user_features_vars
extract_user_features_vars(inst, smp) ==
    LET var_names == Sample_get(smp, "var_names")
    IN  IF var_names = None THEN FxOutcome(smp, "AssertionError", "")
        ELSE LET n == Len(var_names.items)
                 entries == [i \in 1..n |-> VarEntry(inst, var_names.items[i].s)]
                 bad == FirstRaised(entries)
             IN  IF bad # 0
                 THEN FxOutcome(smp, entries[bad].exc, "var=" \o var_names.items[bad].s)
                 ELSE FxOutcome(
                        Sample_put(
                          Sample_put(smp, "var_categories",
                                     PyList([i \in 1..n |-> entries[i].cat])),
                          "var_features_user", PyList([i \in 1..n |-> entries[i].feat])),
                        "", "")

\* FeaturesExtractor._extract_user_features_constrs
extract_user_features_constrs(inst, smp) ==
    LET constr_names == Sample_get(smp, "constr_names")
    IN  IF constr_names = None THEN FxOutcome(smp, "AssertionError", "")
        ELSE LET n == Len(constr_names.items)
                 entries == [i \in 1..n |-> ConstrEntry(inst, constr_names.items[i].s)]
                 bad == FirstRaised(entries)
             IN  IF bad # 0
                 THEN FxOutcome(smp, entries[bad].exc, "cname=" \o constr_names.items[bad].s)
                 ELSE FxOutcome(
                        Sample_put(
                          Sample_put(
                            Sample_put(smp, "constr_features_user",
                                       PyList([i \in 1..n |-> entries[i].feat])),
                            "constr_lazy", PyList(LazyFlags(entries))),
                          "constr_categories", PyList([i \in 1..n |-> entries[i].cat])),
                        "", "")

\* sum(constr_lazy)
RECURSIVE CountTrue(_)
CountTrue(flags) ==
    IF flags = <<>> THEN 0
    ELSE (IF Head(flags).b THEN 1 ELSE 0) + CountTrue(Tail(flags))

\* FeaturesExtractor._extract_user_features_instance
extract_user_features_instance(inst, smp) ==
    LET user_features == IF inst.instance_features.t = "ndarray"
                         THEN tolist(inst.instance_features)
                         ELSE inst.instance_features
        constr_lazy == Sample_get(smp, "constr_lazy")
    IN  IF user_features.t # "list" THEN FxOutcome(smp, "AssertionError", "instance")
        ELSE IF \E j \in 1..Len(user_features.items) : ~IsReal(user_features.items[j])
        THEN FxOutcome(smp, "AssertionError", "instance")
        ELSE IF constr_lazy = None THEN FxOutcome(smp, "AssertionError", "")
        ELSE FxOutcome(
               Sample_put(Sample_put(smp, "instance_features_user", user_features),
                          "static_lazy_count", PyInt(CountTrue(constr_lazy.items))),
               "", "")

(* ------------------ features.py: Alvarez et al. (2017) ---------------- *)

\* the loop that sums the strictly positive coefficients into pos and the
\* negated strictly negative ones into neg, from the sums so far
RECURSIVE obj_coeff_sums(_, _, _)
obj_coeff_sums(coeffs, pos, neg) ==
    IF coeffs = <<>> THEN [pos |-> pos, neg |-> neg]
    ELSE LET coeff == AsFloat(Head(coeffs))
         IN  obj_coeff_sums(Tail(coeffs),
                            IF Lt(F(0), coeff) THEN Add(pos, coeff) ELSE pos,
                            IF Lt(coeff, F(0)) THEN Add(neg, Neg(coeff)) ELSE neg)

\* features 1 to 3, with the magnitude divided by the sum of all magnitudes
Features1to3_AllMagnitudes(coeff, sums) ==
    LET total == Add(sums.pos, sums.neg)
    IN  <<sign(coeff),
          IF Lt(F(0), total) THEN Div(fabs(coeff), total) ELSE F(0),
          IF Lt(F(0), total) THEN Div(fabs(coeff), total) ELSE F(0)>>

\* features 1 to 3 of a variable: the sign of its coefficient, and its
\* magnitude over the positive and over the negative sum
Features1to3(coeff, sums) ==
    <<sign(coeff),
      IF Lt(F(0), sums.pos) THEN Div(fabs(coeff), sums.pos) ELSE F(0),
      IF Lt(F(0), sums.neg) THEN Div(fabs(coeff), sums.neg) ELSE F(0)>>

\* feature 37: the fractionality of the LP value
Feature37(value) == <<min(Sub(value, floor(value)), Sub(ceil(value), value))>>

\* the threshold 0.001 of the log features
GapThreshold == Float("fin", 1, 1000, 0)

\* feature 47 or 48 with no look at csign
LogGap_NoSignCheck(gap, csign) ==
    IF Lt(GapThreshold, Div(gap, csign)) THEN log(Div(gap, csign)) ELSE F(0)

\* feature 47 or 48: log(gap / csign) if csign != 0 and it exceeds 0.001
LogGap(gap, csign) ==
    IF csign # F(0) /\ Lt(GapThreshold, Div(gap, csign)) THEN log(Div(gap, csign))
    ELSE F(0)

\* features 44, 46, 47 and 48, from the sensitivity bounds of the objective
Features44to48(obj, down, up) ==
    LET sd == max(FE(-1, ClampExp), down)
        su == min(FE(1, ClampExp), up)
        csign == sign(obj)
    IN  <<sign(up), sign(down), LogGap(Sub(obj, sd), csign), LogGap(Sub(su, obj), csign)>>

\* FeaturesExtractor._extract_var_features_AlvLouWeh2017
extract_var_features_AlvLouWeh2017(smp, prefix) ==
    LET obj_coeffs == Sample_get(smp, "var_obj_coeffs")
        obj_sa_down == Sample_get(smp, "lp_var_sa_obj_down")
        obj_sa_up == Sample_get(smp, "lp_var_sa_obj_up")
        values == Sample_get(smp, "lp_var_values")
    IN  IF obj_coeffs = None THEN FxOutcome(smp, "AssertionError", "")
        ELSE IF obj_sa_up # None /\ obj_sa_down = None /\ Len(obj_coeffs.items) > 0
        THEN FxOutcome(smp, "AssertionError", "")
        ELSE LET sums == obj_coeff_sums(obj_coeffs.items, F(0), F(0))
                 f(i) == Features1to3(AsFloat(obj_coeffs.items[i]), sums)
                         \o (IF values # None
                             THEN Feature37(AsFloat(values.items[i]))
                             ELSE <<>>)
                         \o (IF obj_sa_up # None
                             THEN Features44to48(AsFloat(obj_coeffs.items[i]),
                                                 AsFloat(obj_sa_down.items[i]),
                                                 AsFloat(obj_sa_up.items[i]))
                             ELSE <<>>)
                 n == Len(obj_coeffs.items)
             IN  IF \E i \in 1..n : \E j \in 1..Len(f(i)) : ~isfinite(f(i)[j])
                 THEN FxOutcome(smp, "AssertionError", "")
                 ELSE FxOutcome(
                        Sample_put(smp, prefix \o "var_features_AlvLouWeh2017",
                                   PyList([i \in 1..n |-> PyList(f(i))])),
                        "", "")

(* --------------- features.py: extract_after_load_features ------------- *)

\* lines 184 to 192: the static attributes of the variables and of the
\* constraints, as the solver returns them
PutStatic(smp, slv) ==
    [k \in DOMAIN smp \cup {"var_lower_bounds", "var_names", "var_obj_coeffs", "var_types",
                            "var_upper_bounds", "constr_names", "constr_lhs",
                            "constr_rhs", "constr_senses"} |->
        CASE k = "var_lower_bounds" -> slv.var_lower_bounds
          [] k = "var_names" -> slv.var_names
          [] k = "var_obj_coeffs" -> slv.var_obj_coeffs
          [] k = "var_types" -> slv.var_types
          [] k = "var_upper_bounds" -> slv.var_upper_bounds
          [] k = "constr_names" -> slv.constr_names
          [] k = "constr_lhs" -> slv.constr_lhs
          [] k = "constr_rhs" -> slv.constr_rhs
          [] k = "constr_senses" -> slv.constr_senses
          [] OTHER -> smp[k]]

\* the keys combined into var_features
VarFeatureKeys ==
    <<"var_features_AlvLouWeh2017", "var_features_user", "var_lower_bounds",
      "var_obj_coeffs", "var_upper_bounds">>

\* the last step: var_features is what _combine makes of the keys
PutVarFeatures(smp) ==
    LET r == combine(smp, VarFeatureKeys)
    IN  IF IsRaised(r) THEN FxOutcome(smp, r.exc, "")
        ELSE FxOutcome(Sample_put(smp, "var_features", r), "", "")

\* FeaturesExtractor.extract_after_load_features: the steps in turn, up to
\* the first that raises; whatever the steps before it put stays in the
\* sample
extract_after_load_features(inst, slv, smp) ==
    LET r1 == extract_user_features_vars(inst, PutStatic(smp, slv))
        r2 == extract_user_features_constrs(inst, r1.smp)
        r3 == extract_user_features_instance(inst, r2.smp)
        r4 == extract_var_features_AlvLouWeh2017(r3.smp, "")
        r5 == PutVarFeatures(r4.smp)
    IN  IF r1.exc # "" THEN r1
        ELSE IF r2.exc # "" THEN r2
        ELSE IF r3.exc # "" THEN r3
        ELSE IF r4.exc # "" THEN r4
        ELSE r5

(* ---------- features.py: extract_after_lp_features, _mip_features ------ *)

\* the keys lines 218 to 231 put, each from the attribute of the same name
\* of what the solver returns
LpKeys ==
    {"lp_var_basis_status", "lp_var_reduced_costs", "lp_var_sa_lb_down", "lp_var_sa_lb_up",
     "lp_var_sa_obj_down", "lp_var_sa_obj_up", "lp_var_sa_ub_down", "lp_var_sa_ub_up",
     "lp_var_values", "lp_constr_basis_status", "lp_constr_dual_values",
     "lp_constr_sa_rhs_down", "lp_constr_sa_rhs_up", "lp_constr_slacks"}

\* the attribute a key of LpKeys is put from
AttributeOf(key) ==
    CASE key = "lp_var_basis_status" -> "var_basis_status"
      [] key = "lp_var_reduced_costs" -> "var_reduced_costs"
      [] key = "lp_var_sa_lb_down" -> "var_sa_lb_down"
      [] key = "lp_var_sa_lb_up" -> "var_sa_lb_up"
      [] key = "lp_var_sa_obj_down" -> "var_sa_obj_down"
      [] key = "lp_var_sa_obj_up" -> "var_sa_obj_up"
      [] key = "lp_var_sa_ub_down" -> "var_sa_ub_down"
      [] key = "lp_var_sa_ub_up" -> "var_sa_ub_up"
      [] key = "lp_var_values" -> "var_values"
      [] key = "lp_constr_basis_status" -> "constr_basis_status"
      [] key = "lp_constr_dual_values" -> "constr_dual_values"
      [] key = "lp_constr_sa_rhs_down" -> "constr_sa_rhs_down"
      [] key = "lp_constr_sa_rhs_up" -> "constr_sa_rhs_up"
      [] OTHER -> "constr_slacks"

\* lines 218 to 231: the LP attributes of the variables and constraints
PutLp(smp, slv) ==
    [k \in DOMAIN smp \cup LpKeys |-> IF k \in LpKeys THEN slv[AttributeOf(k)] ELSE smp[k]]

\* the keys combined into lp_var_features and into lp_constr_features
LpVarFeatureKeys ==
    <<"lp_var_features_AlvLouWeh2017", "lp_var_reduced_costs", "lp_var_sa_lb_down",
      "lp_var_sa_lb_up", "lp_var_sa_obj_down", "lp_var_sa_obj_up", "lp_var_sa_ub_down",
      "lp_var_sa_ub_up", "lp_var_values", "var_features_user", "var_lower_bounds",
      "var_obj_coeffs", "var_upper_bounds">>

LpConstrFeatureKeys ==
    <<"constr_features_user", "lp_constr_dual_values", "lp_constr_sa_rhs_down",
      "lp_constr_sa_rhs_up", "lp_constr_slacks">>

\* sample.put(key, self._combine(sample, attrs))
PutCombined(smp, key, attrs) ==
    LET r == combine(smp, attrs)
    IN  IF IsRaised(r) THEN FxOutcome(smp, r.exc, "")
        ELSE FxOutcome(Sample_put(smp, key, r), "", "")

\* lines 266 to 276: lp_instance_features is instance_features_user and
\* then lp_value and lp_wallclock_time
PutLpInstanceFeatures(smp) ==
    LET instance_features_user == Sample_get(smp, "instance_features_user")
    IN  IF instance_features_user = None THEN FxOutcome(smp, "AssertionError", "")
        ELSE FxOutcome(
               Sample_put(smp, "lp_instance_features",
                          PyList(instance_features_user.items
                                   \o <<Sample_get(smp, "lp_value"),
                                        Sample_get(smp, "lp_wallclock_time")>>)),
               "", "")

\* step k of extract_after_lp_features: the LP attributes and the features
\* of Alvarez et al., lp_var_features, lp_constr_features,
\* lp_instance_features
LpStep(k, slv, smp) ==
    CASE k = 1 -> extract_var_features_AlvLouWeh2017(PutLp(smp, slv), "lp_")
      [] k = 2 -> PutCombined(smp, "lp_var_features", LpVarFeatureKeys)
      [] k = 3 -> PutCombined(smp, "lp_constr_features", LpConstrFeatureKeys)
      [] OTHER -> PutLpInstanceFeatures(smp)

RECURSIVE LpSteps(_, _, _)
\* the steps from k on, up to the first that raises
LpSteps(k, slv, r) ==
    IF k > 4 \/ r.exc # "" THEN r ELSE LpSteps(k + 1, slv, LpStep(k, slv, r.smp))

\* FeaturesExtractor.extract_after_lp_features: the steps in turn, up to
\* the first that raises
extract_after_lp_features(slv, smp) == LpSteps(1, slv, FxOutcome(smp, "", ""))

\* extract_after_mip_features that clears the values of the LP as well
extract_after_mip_features_ClearsLpValues(slv, smp) ==
    FxOutcome(
      Sample_put(
        Sample_put(Sample_put(smp, "mip_var_values", slv.var_values),
                   "mip_constr_slacks", slv.constr_slacks),
        "lp_var_values", None),
      "", "")

\* FeaturesExtractor.extract_after_mip_features
extract_after_mip_features(slv, smp) ==
    FxOutcome(
      Sample_put(Sample_put(smp, "mip_var_values", slv.var_values),
                 "mip_constr_slacks", slv.constr_slacks),
      "", "")

(* ----------------- the after-load checkpoint as a machine ------------- *)

\* the names of the variables and of the constraints
VarNames == PyList([i \in 1..MaxEntities |-> PyStr("x" \o ToString(i))])

ConstrNames == PyList([i \in 1..MaxEntities |-> PyStr("c" \o ToString(i))])

\* a name without an entry in a dictionary
Missing == Scalar("missing", FALSE, 0, "")

\* the dictionary with the entry vals[i] for names[i], but for Missing
DictOf(names, vals) ==
    [nm \in {names.items[i].s : i \in {j \in 1..Len(vals) : vals[j] # Missing}} |->
        vals[CHOOSE i \in 1..Len(vals) : names.items[i].s = nm]]

\* the categories given to a variable: none, "A", and a list (not hashable)
VarCategories == {Missing, PyStr("A"), PyList(<<>>)}

\* the categories given to a constraint: none, None, "A", and a list
ConstrCategories == {Missing, None, PyStr("A"), PyList(<<>>)}

\* the features given to a variable: none, a list of numbers, an array of
\* numbers, a list with text in it, and text
VarFeatures ==
    {Missing, PyList(<<F(1), F(2)>>), NdArray("float64", <<F(1)>>), PyList(<<PyStr("a")>>),
     PyStr("abc")}

\* the features given to a constraint
ConstrFeatures == {Missing, PyList(<<F(1)>>), PyList(<<PyStr("a")>>)}

\* the features given to the instance
InstanceFeatures ==
    {PyList(<<F(1)>>), PyList(<<>>), NdArray("float64", <<F(1)>>), PyList(<<PyStr("a")>>),
     PyStr("abc")}

\* the objective coefficients: 3.0, -2.0, 0.0, -1e30, inf and NaN
ObjCoeffs == {F(3), F(-2), F(0), FE(-1, 30), PosInf, NaN}

\* the constraints is_constraint_lazy may hold of
LazyNames == {"c1", "c2"}

\* an Instance
Instance(vc, vf, cc, cf, hsl, lz, f) ==
    [var_categories |-> vc, var_features |-> vf, constr_categories |-> cc,
     constr_features |-> cf, has_static_lazy |-> hsl, lazy |-> lz, instance_features |-> f]

\* the Instance with no category, no feature and no lazy constraint
PlainInstance == Instance(EmptyMap, EmptyMap, EmptyMap, EmptyMap, FALSE, {}, PyList(<<F(1)>>))

\* the sensitivity bounds of an objective coefficient, as (down, up):
\* -1e30 and 1e30, -inf and inf, -5.0 and 5.0, and -5.0 and NaN
SaObjBounds == {<<FE(-1, 30), FE(1, 30)>>, <<NegInf, PosInf>>, <<F(-5), F(5)>>, <<F(-5), NaN>>}

\* the objective coefficients of the variables that have sensitivity data
LpObjCoeffs == {F(3), F(-2), F(0)}

\* what the solver returns: for variables of the objective coefficients
\* coeffs, bounds 0.0 and inf, type "C", and constraints of no term, right-
\* hand side 1.0 and sense "<"; after the LP, the value 0.5 and a basic
\* status for each variable, and with sensitivity analysis (with_sa) the
\* ranges sa[i] of the objective coefficients, else None for each range
LpSolver(coeffs, with_sa, sa) ==
    LET Each(v) == PyList([i \in 1..MaxEntities |-> v])
        Range(v) == IF with_sa THEN Each(v) ELSE None
    IN  [var_names |-> VarNames,
         var_lower_bounds |-> Each(F(0)),
         var_upper_bounds |-> Each(PosInf),
         var_obj_coeffs |-> PyList(coeffs),
         var_types |-> Each(PyStr("C")),
         constr_names |-> ConstrNames,
         constr_lhs |-> Each(PyList(<<>>)),
         constr_rhs |-> Each(F(1)),
         constr_senses |-> Each(PyStr("<")),
         with_sa |-> with_sa,
         var_basis_status |-> Each(PyStr("B")),
         var_reduced_costs |-> Each(F(0)),
         var_sa_lb_down |-> Range(NegInf),
         var_sa_lb_up |-> Range(F(1)),
         var_sa_obj_down |-> IF with_sa THEN PyList([i \in 1..MaxEntities |-> sa[i][1]])
                             ELSE None,
         var_sa_obj_up |-> IF with_sa THEN PyList([i \in 1..MaxEntities |-> sa[i][2]])
                           ELSE None,
         var_sa_ub_down |-> Range(F(0)),
         var_sa_ub_up |-> Range(PosInf),
         var_values |-> Each(Float("fin", 1, 2, 0)),
         constr_basis_status |-> Each(PyStr("N")),
         constr_dual_values |-> Each(F(0)),
         constr_sa_rhs_down |-> Range(F(0)),
         constr_sa_rhs_up |-> Range(PosInf),
         constr_slacks |-> Each(Float("fin", 1, 2, 0))]

\* the solver with sensitivity ranges -5.0 and 5.0
Solver(coeffs) == LpSolver(coeffs, TRUE, [i \in 1..MaxEntities |-> <<F(-5), F(5)>>])

PlainSolver == Solver([i \in 1..MaxEntities |-> F(1)])

\* a new Sample, and an Instance and a solver that vary in the data of the
\* variables, or of the constraints, or of the instance, or in the
\* objective
InitFx ==
    /\ StoreIdle
    /\ sample = EmptyMap
    /\ call = NoCall
    /\ \/ /\ solver = PlainSolver
          /\ \E vc \in [1..MaxEntities -> VarCategories] :
               \E vf \in [1..MaxEntities -> VarFeatures] :
                  instance = [PlainInstance EXCEPT
                                 !.var_categories = DictOf(VarNames, vc),
                                 !.var_features = DictOf(VarNames, vf)]
       \/ /\ solver = PlainSolver
          /\ \E cc \in [1..MaxEntities -> ConstrCategories] :
               \E cf \in [1..MaxEntities -> ConstrFeatures] :
                  \E hsl \in BOOLEAN : \E lz \in SUBSET LazyNames :
                     instance = [PlainInstance EXCEPT
                                    !.constr_categories = DictOf(ConstrNames, cc),
                                    !.constr_features = DictOf(ConstrNames, cf),
                                    !.has_static_lazy = hsl,
                                    !.lazy = lz]
       \/ /\ solver = PlainSolver
          /\ \E f \in InstanceFeatures : instance = [PlainInstance EXCEPT !.instance_features = f]
       \/ /\ instance = PlainInstance
          /\ \E coeffs \in [1..MaxEntities -> ObjCoeffs] : solver = Solver(coeffs)

\* extractor.extract_after_load_features(instance, solver, sample), on the
\* new sample or again after the LP
ExtractAfterLoad ==
    /\ call.op \in {"init", "extract_after_lp_features"}
    /\ LET r == extract_after_load_features(instance, solver, sample)
       IN  /\ sample' = r.smp
           /\ call' = [op |-> "extract_after_load_features", arg |-> None, exc |-> r.exc,
                       result |-> PyStr(r.msg)]
    /\ UNCHANGED <<instance, solver>>
    /\ UNCHANGED storeVars

\* extractor.extract_after_lp_features(solver, sample), once; arg is the
\* with_sa the solver is asked with
ExtractAfterLp ==
    /\ call.op \in {"init", "extract_after_load_features"}
    /\ "lp_var_values" \notin DOMAIN sample
    /\ LET r == extract_after_lp_features(solver, sample)
       IN  /\ sample' = r.smp
           /\ call' = [op |-> "extract_after_lp_features", arg |-> PyBool(solver.with_sa),
                       exc |-> r.exc, result |-> PyStr(r.msg)]
    /\ UNCHANGED <<instance, solver>>
    /\ UNCHANGED storeVars

\* extractor.extract_after_mip_features(solver, sample), at the end; arg is
\* the with_sa the solver is asked with
ExtractAfterMip ==
    /\ call.op \in {"extract_after_load_features", "extract_after_lp_features"}
    /\ LET r == extract_after_mip_features(solver, sample)
       IN  /\ sample' = r.smp
           /\ call' = [op |-> "extract_after_mip_features", arg |-> PyBool(FALSE),
                       exc |-> r.exc, result |-> PyStr(r.msg)]
    /\ UNCHANGED <<instance, solver>>
    /\ UNCHANGED storeVars

NextFx == ExtractAfterLoad


SpecFx == InitFx /\ [][NextFx]_vars

\* the instances of the three checkpoints: one with no user data, one
\* whose instance features are text, and one with a list as the category
\* of its first variable
LpInstances ==
    {PlainInstance,
     [PlainInstance EXCEPT !.instance_features = PyStr("abc")],
     [PlainInstance EXCEPT !.var_categories = DictOf(VarNames, <<PyList(<<>>)>>)]}

\* a new Sample, an Instance, and a solver that varies in the objective
\* and its sensitivity ranges, or has no sensitivity data
InitLp ==
    /\ StoreIdle
    /\ sample = EmptyMap
    /\ call = NoCall
    /\ instance \in LpInstances
    /\ \E coeffs \in [1..MaxEntities -> LpObjCoeffs] :
          \/ \E sa \in [1..MaxEntities -> SaObjBounds] : solver = LpSolver(coeffs, TRUE, sa)
          \/ solver = LpSolver(coeffs, FALSE, <<>>)

\* the three checkpoints: after load, after the LP, after the MIP
NextLp == ExtractAfterLoad \/ ExtractAfterLp \/ ExtractAfterMip

SpecLp == InitLp /\ [][NextLp]_vars

(* --------------------------- C17, C18, C19 ---------------------------- *)

\* _combine has been called on the sample and has returned
Combined == call.op = "combine" /\ call.exc = ""

\* the keys handed to the last call of _combine
AttrsOfCall == [i \in 1..Len(call.arg.items) |-> call.arg.items[i].s]

\* the keys of the sample describe one entity set: every series has one
\* entry per entity
SameEntitySet ==
    /\ DOMAIN sample # {}
    /\ \A k1, k2 \in DOMAIN sample : Len(sample[k1].items) = Len(sample[k2].items)

EntityCount == Len(sample[CHOOSE k \in DOMAIN sample : TRUE].items)

\* the keys handed to _combine are keys of numbers or of lists of numbers
NumericAttrs == \A j \in 1..Len(AttrsOfCall) : AttrsOfCall[j] # "var_names"

\* a number within [-1e20, 1e20]: not NaN, not infinite, not beyond the bound
InRange(x) ==
    /\ isfinite(x)
    /\ ~Lt(x, FE(-1, ClampExp))
    /\ ~Lt(FE(1, ClampExp), x)

\* C17: finiteness.  Every element of every row _combine returns lies in
\* [-1e20, 1e20] and is neither NaN nor infinite, whatever the values in
\* the sample.
C17_CombinedIsFinite ==
    Combined =>
        \A i \in 1..Len(call.result.items) :
            \A j \in 1..Len(call.result.items[i].items) :
                InRange(call.result.items[i].items[j])

\* the sample with its series cut down to the entry of entity i
OnlyEntity(smp, i) == [k \in DOMAIN smp |-> PyList(<<smp[k].items[i]>>)]

\* row i is what _combine makes of the entries of entity i alone
RowsFromOwnEntries ==
    \A i \in 1..Len(call.result.items) :
        call.result.items[i] = combine(OnlyEntity(sample, i), AttrsOfCall).items[1]

\* C18 as stated: for every list of (numeric) keys over one entity set,
\* some of them possibly absent from the sample, _combine returns one row
\* per entity and row i is built from entry i of each key only.
C18_RowPerEntity ==
    (call.op = "combine" /\ SameEntitySet /\ NumericAttrs)
        => /\ call.exc = ""
           /\ Len(call.result.items) = EntityCount
           /\ RowsFromOwnEntries

\* C18 as amended: the same when at least one of the keys is in the sample;
\* when none is, _combine returns no row.
C18_RowPerEntityOfPresentKeys ==
    (call.op = "combine" /\ SameEntitySet /\ NumericAttrs)
        => /\ call.exc = ""
           /\ IF \E j \in 1..Len(AttrsOfCall) : AttrsOfCall[j] \in DOMAIN sample
              THEN Len(call.result.items) = EntityCount /\ RowsFromOwnEntries
              ELSE call.result = PyList(<<>>)

\* two keys were combined, one of them absent from the sample, the other
\* with different entries for two entities
C18_Witness ==
    /\ call.op = "combine"
    /\ SameEntitySet
    /\ NumericAttrs
    /\ EntityCount = 2
    /\ \E j1, j2 \in 1..Len(AttrsOfCall) :
         /\ AttrsOfCall[j1] \notin DOMAIN sample
         /\ AttrsOfCall[j2] \in DOMAIN sample
         /\ sample[AttrsOfCall[j2]].items[1] # sample[AttrsOfCall[j2]].items[2]
    /\ Len(call.result.items) = 2

\* a value as a row holds it: an infinity is held as the bound of its sign
Held(x) ==
    IF x = PosInf THEN FE(1, ClampExp)
    ELSE IF x = NegInf THEN FE(-1, ClampExp)
    ELSE x

\* what the entry of entity i under a key gives a row
PartOf(key, i) ==
    LET series == Sample_get(sample, key)
    IN  IF series = None THEN <<>>
        ELSE LET entry == series.items[i]
             IN  IF entry = None THEN <<>>
                 ELSE IF entry.t = "list"
                 THEN [j \in 1..Len(entry.items) |-> Held(entry.items[j])]
                 ELSE <<Held(entry)>>

\* the parts of entity i under the keys, one after the other
RECURSIVE RowOf(_, _)
RowOf(keys, i) == IF keys = <<>> THEN <<>> ELSE PartOf(Head(keys), i) \o RowOf(Tail(keys), i)

\* the number of elements the keys hold for entity i: one for a scalar, the
\* length of a list, none for a key or an entry that is absent
RECURSIVE CountOf(_, _)
CountOf(keys, i) ==
    IF keys = <<>> THEN 0
    ELSE LET series == Sample_get(sample, Head(keys))
             here == IF series = None THEN 0
                     ELSE IF series.items[i] = None THEN 0
                     ELSE IF series.items[i].t = "list" THEN Len(series.items[i].items)
                     ELSE 1
         IN  here + CountOf(Tail(keys), i)

\* C19: the row of an entity is the concatenation, in key order, of the
\* scalar at each key or of the elements of its list entry (an infinity
\* held as the bound); an absent key and an absent entry add nothing, so
\* the row is as long as the present scalars and list entries together.
C19_RowIsConcatenation ==
    (Combined /\ SameEntitySet)
        => \A i \in 1..Len(call.result.items) :
              /\ call.result.items[i].items = RowOf(AttrsOfCall, i)
              /\ Len(call.result.items[i].items) = CountOf(AttrsOfCall, i)

\* two present keys were combined for an entity with an absent entry under
\* one and a list under the other, and for one with a scalar
C19_Witness ==
    /\ Combined
    /\ SameEntitySet
    /\ Len(AttrsOfCall) = 2
    /\ AttrsOfCall[1] # AttrsOfCall[2]
    /\ DOMAIN sample = {AttrsOfCall[1], AttrsOfCall[2]}
    /\ EntityCount = 2
    /\ sample[AttrsOfCall[1]].items[1] = None
    /\ sample[AttrsOfCall[2]].items[1] = PyList(<<PosInf, F(2)>>)
    /\ sample[AttrsOfCall[1]].items[2] = F(1)
    /\ sample[AttrsOfCall[2]].items[2] = None
    /\ Len(call.result.items[1].items) = 2

(* ------------------------ C13, C14, C15, C16, C20 ---------------------- *)

\* extract_after_load_features has returned or raised
FxDone == call.op = "extract_after_load_features"

\* the entries stored at a key of the sample
Stored(key) == sample[key].items

\* the name of variable i and of constraint i
VarName(i) == solver.var_names.items[i].s

ConstrName(i) == solver.constr_names.items[i].s

\* the number of variables and of constraints of the instance
VarCount == Len(solver.var_names.items)

ConstrCount == Len(solver.constr_names.items)

\* a registered feature value as a plain list: an array is converted
PlainList(v) == IF v.t = "ndarray" THEN PyList(v.data) ELSE v

\* the lazy flag of constraint i: false unless the instance declares static
\* lazy constraints and is_constraint_lazy holds of its name
LazyFlagOf(i) == PyBool(instance.has_static_lazy /\ ConstrName(i) \in instance.lazy)

\* C13: after extract_after_load_features, constr_names,
\* constr_categories, constr_features_user and constr_lazy each have one
\* entry per constraint, and entry i of each describes constraint i.
C13_ConstraintsAligned ==
    (FxDone /\ "constr_categories" \in DOMAIN sample)
        => /\ \A key \in {"constr_names", "constr_categories", "constr_features_user",
                          "constr_lazy"} : Len(Stored(key)) = ConstrCount
           /\ \A i \in 1..ConstrCount : Stored("constr_lazy")[i] = LazyFlagOf(i)

\* C14: for every variable i, with no entry in the category mapping both
\* var_categories[i] and var_features_user[i] are absent, whatever features
\* are registered; with a category, var_categories[i] is it and
\* var_features_user[i] is the registered vector as a plain list, or
\* absent when none is registered.
C14_VariableEntries ==
    (FxDone /\ "var_categories" \in DOMAIN sample)
        => /\ Len(Stored("var_categories")) = VarCount
           /\ Len(Stored("var_features_user")) = VarCount
           /\ \A i \in 1..VarCount :
                 IF VarName(i) \notin DOMAIN instance.var_categories
                 THEN /\ Stored("var_categories")[i] = None
                      /\ Stored("var_features_user")[i] = None
                 ELSE /\ Stored("var_categories")[i] = instance.var_categories[VarName(i)]
                      /\ Stored("var_features_user")[i] =
                            (IF VarName(i) \in DOMAIN instance.var_features
                             THEN PlainList(instance.var_features[VarName(i)])
                             ELSE None)

\* the first variable has features but no category, the second has a
\* category and an array of features, and both were stored
C14_Witness ==
    /\ FxDone
    /\ call.exc = ""
    /\ VarName(1) \notin DOMAIN instance.var_categories
    /\ VarName(1) \in DOMAIN instance.var_features
    /\ VarName(2) \in DOMAIN instance.var_categories
    /\ VarName(2) \in DOMAIN instance.var_features
    /\ instance.var_features[VarName(2)].t = "ndarray"
    /\ Stored("var_features_user")[1] = None
    /\ Stored("var_features_user")[2].t = "list"

\* the number of true flags of constr_lazy
TrueFlags == Cardinality({i \in 1..Len(Stored("constr_lazy")) : Stored("constr_lazy")[i].b})

\* C15: a constraint with no entry in the category mapping gets its own
\* name as category; every constraint is marked non-lazy when the instance
\* declares no static lazy constraints, and else the flag of a constraint
\* is is_constraint_lazy(name); static_lazy_count is the number of true
\* flags.
C15_DefaultCategoryAndLazy ==
    (FxDone /\ "static_lazy_count" \in DOMAIN sample)
        => /\ \A i \in 1..ConstrCount :
                 /\ ConstrName(i) \notin DOMAIN instance.constr_categories
                        => Stored("constr_categories")[i] = PyStr(ConstrName(i))
                 /\ i <= Len(Stored("constr_lazy"))
                 /\ Stored("constr_lazy")[i] = LazyFlagOf(i)
           /\ sample["static_lazy_count"] = PyInt(TrueFlags)

\* a feature value that is not a list after conversion, or that holds an
\* element that is not a real number
InvalidFeatures(v) ==
    \/ PlainList(v).t # "list"
    \/ \E j \in 1..Len(PlainList(v).items) :
          PlainList(v).items[j].t \notin {"float", "int", "bool"}

\* a category that is not hashable
Unhashable(c) == c.t \in {"list", "dict", "ndarray"}

\* the user-supplied data of variable i, or of constraint i, is bad
VarBad(i) ==
    \/ /\ VarName(i) \in DOMAIN instance.var_features
       /\ InvalidFeatures(instance.var_features[VarName(i)])
    \/ /\ VarName(i) \in DOMAIN instance.var_categories
       /\ Unhashable(instance.var_categories[VarName(i)])

ConstrBad(i) ==
    \/ /\ ConstrName(i) \in DOMAIN instance.constr_features
       /\ InvalidFeatures(instance.constr_features[ConstrName(i)])
    \/ /\ ConstrName(i) \in DOMAIN instance.constr_categories
       /\ Unhashable(instance.constr_categories[ConstrName(i)])

\* the messages that identify an entity with bad data
BadEntities ==
    {"var=" \o VarName(i) : i \in {j \in 1..VarCount : VarBad(j)}}
        \cup {"cname=" \o ConstrName(i) : i \in {j \in 1..ConstrCount : ConstrBad(j)}}
        \cup (IF InvalidFeatures(instance.instance_features) THEN {"instance"} ELSE {})

\* C16: for variables, constraints and the instance, a feature value that
\* is not a list (after converting an array) or holds an element that is
\* not a real number, and a category that is not hashable, raise a
\* validation error that identifies the entity.
C16_FailFast ==
    (FxDone /\ BadEntities # {})
        => /\ call.exc = "AssertionError"
           /\ call.result.s \in BadEntities

\* the category of constraint i: its own name unless the mapping has one
ConstrCategory(i) ==
    IF ConstrName(i) \in DOMAIN instance.constr_categories
    THEN instance.constr_categories[ConstrName(i)]
    ELSE PyStr(ConstrName(i))

\* variable i, or constraint i, has a category, and the category is not
\* hashable or the features are bad
VarChecked(i) ==
    /\ VarName(i) \in DOMAIN instance.var_categories
    /\ VarBad(i)

ConstrChecked(i) ==
    /\ ConstrCategory(i) # None
    /\ ConstrBad(i)

\* the least index a predicate holds of
First(S) == CHOOSE i \in S : \A j \in S : i <= j

\* the entity the extraction stops at: the first variable with a category
\* and bad data, else the first such constraint, else the instance if its
\* features are bad, else none ("")
FirstChecked ==
    IF \E i \in 1..VarCount : VarChecked(i)
    THEN "var=" \o VarName(First({i \in 1..VarCount : VarChecked(i)}))
    ELSE IF \E i \in 1..ConstrCount : ConstrChecked(i)
    THEN "cname=" \o ConstrName(First({i \in 1..ConstrCount : ConstrChecked(i)}))
    ELSE IF InvalidFeatures(instance.instance_features) THEN "instance"
    ELSE ""

\* the keys the steps for the variables, the constraints and the instance
\* put
UserKeys(step) ==
    CASE step = "var" -> {"var_categories", "var_features_user"}
      [] step = "cname" -> {"constr_categories", "constr_features_user", "constr_lazy"}
      [] OTHER -> {"instance_features_user", "static_lazy_count"}

\* the step the extraction stops at
FirstStep ==
    IF \E i \in 1..VarCount : VarChecked(i) THEN "var"
    ELSE IF \E i \in 1..ConstrCount : ConstrChecked(i) THEN "cname"
    ELSE "instance"

\* every feature list stored at a key is a list of real numbers
StoredAreNumbers(key) ==
    key \in DOMAIN sample
        => \A i \in 1..Len(Stored(key)) :
              Stored(key)[i] # None => ~InvalidFeatures(Stored(key)[i]) /\ Stored(key)[i].t = "list"

\* C16 amended: for a variable that has a category, a constraint whose
\* category is not None and the instance, bad features and an unhashable
\* category raise AssertionError; the message names the first such entity
\* and nothing of its step is stored.  Data of an entity with no category
\* is not looked at.  No bad feature value is ever stored.
C16_FailFastWithCategory ==
    FxDone
        => /\ call.result.s = FirstChecked
           /\ FirstChecked # ""
                 => /\ call.exc = "AssertionError"
                    /\ UserKeys(FirstStep) \cap DOMAIN sample = {}
           /\ StoredAreNumbers("var_features_user")
           /\ StoredAreNumbers("constr_features_user")
           /\ "instance_features_user" \in DOMAIN sample
                 => ~InvalidFeatures(sample["instance_features_user"])

\* the first constraint has a None category and features that are not
\* numbers, the second has its own name as category and features that are
\* not numbers, and the extraction stopped at the second
C16_Witness ==
    /\ FxDone
    /\ call.exc = "AssertionError"
    /\ call.result.s = "cname=" \o ConstrName(2)
    /\ ConstrCategory(1) = None
    /\ ConstrBad(1)
    /\ ConstrName(2) \notin DOMAIN instance.constr_categories
    /\ ConstrBad(2)
    /\ "var_features_user" \in DOMAIN sample
    /\ "constr_features_user" \notin DOMAIN sample

\* the sum of the first i coefficients that lie on the side of zero that
\* side names, as magnitudes
RECURSIVE SideSum(_, _, _)
SideSum(coeffs, side, i) ==
    IF i = 0 THEN F(0)
    ELSE LET here == IF side = "pos" /\ Lt(F(0), coeffs[i]) THEN coeffs[i]
                     ELSE IF side = "neg" /\ Lt(coeffs[i], F(0)) THEN Neg(coeffs[i])
                     ELSE F(0)
         IN  Add(SideSum(coeffs, side, i - 1), here)

\* |c| over the sum of a side, or 0 when the sum is 0
Normalized(c, total) == IF total = F(0) THEN F(0) ELSE Div(fabs(c), total)

\* the coefficients are those of scenario A: 3.0, -2.0, and 0.0 for any
\* further variable
ScenarioA ==
    /\ VarCount >= 2
    /\ solver.var_obj_coeffs.items[1] = F(3)
    /\ solver.var_obj_coeffs.items[2] = F(-2)
    /\ \A i \in 3..VarCount : solver.var_obj_coeffs.items[i] = F(0)

\* C20: the first three Alvarez features of variable i are the sign of its
\* coefficient c_i, |c_i| over the sum of the strictly positive
\* coefficients (0 when the sum is 0) and |c_i| over the sum of the
\* magnitudes of the strictly negative ones (0 when the sum is 0); the
\* coefficients 3 and -2 give the signs 1 and -1 and the magnitudes 1, each
\* normalized by the sum of its own sign.
C20_FirstThreeFeatures ==
    (FxDone /\ "var_features_AlvLouWeh2017" \in DOMAIN sample)
        => LET c == solver.var_obj_coeffs.items
               f == Stored("var_features_AlvLouWeh2017")
           IN  /\ Len(f) = VarCount
               /\ \A i \in 1..VarCount :
                     /\ Len(f[i].items) >= 3
                     /\ f[i].items[1] = sign(c[i])
                     /\ f[i].items[2] = Normalized(c[i], SideSum(c, "pos", VarCount))
                     /\ f[i].items[3] = Normalized(c[i], SideSum(c, "neg", VarCount))
               /\ ScenarioA
                     => /\ f[1].items[1] = F(1)
                        /\ f[2].items[1] = F(-1)
                        /\ f[1].items[2] = F(1)
                        /\ f[2].items[3] = F(1)

\* the features of scenario A were stored: the magnitude of the second
\* variable over the positive sum is 2/3
C20_Witness ==
    /\ FxDone
    /\ call.exc = ""
    /\ ScenarioA
    /\ Stored("var_features_AlvLouWeh2017")[2].items[2] = Float("fin", 2, 3, 0)

(* ----------------------- gurobi.py: GurobiSolver ---------------------- *)
(* In the behaviours of the solver the variable solver holds a             *)
(* GurobiSolver: its fields, the gurobipy model it wraps (the type, the   *)
(* bounds and the start of each variable, the names of the constraints,   *)
(* the solution count), and, while solve runs, the locals of solve and    *)
(* the place it has reached (pc).  trace lists what the solve that runs   *)
(* (or ran last) did: its optimize calls, the callback invocations, the   *)
(* exceptions of the bodies and the results of iteration_cb; runs lists   *)
(* the nodes and the runtime of each optimize call.  call holds the last  *)
(* method called.                                                         *)

\* most calls of a method in one behaviour
MaxCalls == 3

\* most native optimize calls of one solve
MaxOptimize == 2

\* most callback invocations during one solve
MaxCallbacks == 2

\* the variables of the model of GurobiTestInstanceKnapsack with one item:
\* x binary and z continuous
GrbVars == {"x", "z"}

\* GurobiTestInstanceKnapsack.to_model with capacity 5: x in {0, 1},
\* 0 <= z <= 5, and the constraint eq_capacity
TestModel ==
    [loaded |-> TRUE,
     vtype |-> [v \in GrbVars |-> IF v = "x" THEN "B" ELSE "C"],
     lb |-> [v \in GrbVars |-> 0],
     ub |-> [v \in GrbVars |-> IF v = "x" THEN 1 ELSE 5],
     start |-> [v \in GrbVars |-> "undefined"],
     constrs |-> {"eq_capacity"},
     sol_count |-> 0]

\* self.model = None
NoModel ==
    [loaded |-> FALSE, vtype |-> EmptyMap, lb |-> EmptyMap, ub |-> EmptyMap, start |-> EmptyMap,
     constrs |-> {}, sol_count |-> 0]

\* GurobiSolver.__init__: no model, no callback, no solution; solve is not
\* running (pc = "idle") and its locals are empty
GurobiSolver(lazy_cb_frequency) ==
    [model |-> NoModel,
     cb_where |-> "None",
     lazy_cb_where |-> IF lazy_cb_frequency = 1 THEN {"MIPSOL"} ELSE {"MIPSOL", "MIPNODE"},
     bin_vars |-> {},
     varname_to_var |-> {},
     original_vtype |-> EmptyMap,
     dirty |-> TRUE,
     has_lp_solution |-> FALSE,
     has_mip_solution |-> FALSE,
     pc |-> "idle",
     iteration_cb |-> FALSE,
     lazy_cb |-> FALSE,
     user_cut_cb |-> FALSE,
     callback_exceptions |-> <<>>,
     total_nodes |-> 0,
     total_wallclock_time |-> 0,
     trace |-> <<>>,
     runs |-> <<>>,
     calls |-> 0]

\* the outcome of a method: the solver it leaves, the exception it raised
\* ("" if none)
GrbOutcome(slv, exc) == [slv |-> slv, exc |-> exc]

\* GurobiSolver._raise_if_callback raises
raise_if_callback(slv) == slv.cb_where # "None"

\* GurobiSolver._update_vars
update_vars(slv) ==
    [slv EXCEPT !.varname_to_var = DOMAIN slv.model.vtype,
                !.original_vtype = slv.model.vtype,
                !.bin_vars = {v \in DOMAIN slv.model.vtype : slv.model.vtype[v] = "B"}]

\* GurobiSolver.set_instance
set_instance(slv) ==
    IF raise_if_callback(slv) THEN GrbOutcome(slv, "Exception")
    ELSE GrbOutcome(update_vars([slv EXCEPT !.model = TestModel]), "")

\* GurobiSolver.fix: each variable of the solution becomes continuous with
\* both bounds at its value
fix(slv, solution) ==
    IF raise_if_callback(slv) THEN GrbOutcome(slv, "Exception")
    ELSE IF ~(DOMAIN solution \subseteq slv.varname_to_var) THEN GrbOutcome(slv, "KeyError")
    ELSE GrbOutcome(
           [slv EXCEPT
              !.model.vtype = [v \in DOMAIN @ |-> IF v \in DOMAIN solution THEN "C" ELSE @[v]],
              !.model.lb = [v \in DOMAIN @ |-> IF v \in DOMAIN solution THEN solution[v] ELSE @[v]],
              !.model.ub = [v \in DOMAIN @ |-> IF v \in DOMAIN solution THEN solution[v] ELSE @[v]]],
           "")

\* GurobiSolver.set_warm_start
set_warm_start(slv, solution) ==
    IF raise_if_callback(slv) THEN GrbOutcome(slv, "Exception")
    ELSE IF ~(DOMAIN solution \subseteq slv.varname_to_var) THEN GrbOutcome(slv, "KeyError")
    ELSE GrbOutcome(
           [slv EXCEPT
              !.model.start = [v \in DOMAIN @ |->
                                 IF v \in DOMAIN solution THEN ToString(solution[v])
                                 ELSE IF v \in slv.varname_to_var THEN "undefined"
                                 ELSE @[v]]],
           "")

\* GurobiSolver.solve_lp: the binary variables are made continuous in
\* [0, 1], the model is optimized (to sol_count solutions), and they are
\* made binary again
solve_lp(slv, sol_count) ==
    IF raise_if_callback(slv) THEN GrbOutcome(slv, "Exception")
    ELSE IF ~slv.model.loaded THEN GrbOutcome(slv, "AssertionError")
    ELSE GrbOutcome(
           [slv EXCEPT
              !.model.vtype = [v \in DOMAIN @ |-> IF v \in slv.bin_vars THEN "B" ELSE @[v]],
              !.model.lb = [v \in DOMAIN @ |-> IF v \in slv.bin_vars THEN 0 ELSE @[v]],
              !.model.ub = [v \in DOMAIN @ |-> IF v \in slv.bin_vars THEN 1 ELSE @[v]],
              !.model.sol_count = sol_count,
              !.dirty = FALSE,
              !.has_lp_solution = sol_count > 0,
              !.has_mip_solution = FALSE],
           "")

\* GurobiSolver.relax: the model is replaced by its relaxation, which has
\* no solution yet
relax(slv) ==
    IF ~slv.model.loaded THEN GrbOutcome(slv, "AssertionError")
    ELSE GrbOutcome(
           update_vars([slv EXCEPT !.model.vtype = [v \in DOMAIN @ |-> "C"],
                                   !.model.sol_count = 0]),
           "")

\* GurobiSolver.add_constraint
add_constraint(slv, name) ==
    IF ~slv.model.loaded THEN GrbOutcome(slv, "AssertionError")
    ELSE GrbOutcome(
           [slv EXCEPT !.model.constrs = @ \cup {name},
                       !.dirty = TRUE,
                       !.has_lp_solution = FALSE,
                       !.has_mip_solution = FALSE],
           "")

\* GurobiSolver.remove_constraint
remove_constraint(slv, name) ==
    IF ~slv.model.loaded THEN GrbOutcome(slv, "AssertionError")
    ELSE GrbOutcome([slv EXCEPT !.model.constrs = @ \ {name}], "")

\* GurobiSolver.get_constraints
get_constraints(slv) ==
    IF ~slv.model.loaded THEN GrbOutcome(slv, "AssertionError")
    ELSE IF raise_if_callback(slv) THEN GrbOutcome(slv, "Exception")
    ELSE GrbOutcome([slv EXCEPT !.dirty = FALSE], "")

\* GurobiSolver.get_solution: inside a callback it is served at MIPNODE and
\* MIPSOL only
get_solution(slv) ==
    IF ~slv.model.loaded THEN GrbOutcome(slv, "AssertionError")
    ELSE IF slv.cb_where \notin {"None", "MIPNODE", "MIPSOL"} THEN GrbOutcome(slv, "Exception")
    ELSE GrbOutcome(slv, "")

\* the start of GurobiSolver.solve, up to the first optimize call: the
\* callbacks given are kept, the locals are reset
solve_begin(slv, iteration_cb, lazy_cb, user_cut_cb) ==
    IF raise_if_callback(slv) THEN GrbOutcome(slv, "Exception")
    ELSE IF ~slv.model.loaded THEN GrbOutcome(slv, "AssertionError")
    ELSE GrbOutcome(
           [slv EXCEPT !.pc = "optimize",
                       !.iteration_cb = iteration_cb,
                       !.lazy_cb = lazy_cb,
                       !.user_cut_cb = user_cut_cb,
                       !.callback_exceptions = <<>>,
                       !.total_nodes = 0,
                       !.total_wallclock_time = 0,
                       !.trace = <<"optimize">>,
                       !.runs = <<>>],
           "")

\* cb_wrapper has a body to run at cb_where: lazy_cb, user_cut_cb or both
HasBody(slv, cb_where) ==
    \/ slv.lazy_cb /\ cb_where \in slv.lazy_cb_where
    \/ slv.user_cut_cb /\ cb_where = "MIPNODE"

\* cb_wrapper, up to the call of the body: with no body to run cb_where is
\* set and reset at once
cb_wrapper_enter(slv, cb_where) ==
    IF HasBody(slv, cb_where)
    THEN [slv EXCEPT !.cb_where = cb_where, !.pc = "callback",
                     !.trace = Append(@, "callback")]
    ELSE [slv EXCEPT !.trace = Append(@, "callback")]

\* cb_wrapper after the body returned
cb_wrapper_return(slv) == [slv EXCEPT !.cb_where = "None", !.pc = "optimize"]

\* cb_wrapper after the body raised e, without the finally clause
cb_wrapper_raise_NoFinally(slv, e) ==
    [slv EXCEPT !.callback_exceptions = Append(@, e),
                !.pc = "optimize",
                !.trace = Append(@, "raise " \o e)]

\* cb_wrapper after the body raised e: e is kept, cb_where is reset
cb_wrapper_raise(slv, e) ==
    [slv EXCEPT !.callback_exceptions = Append(@, e),
                !.cb_where = "None",
                !.pc = "optimize",
                !.trace = Append(@, "raise " \o e)]

\* not should_repeat
Falsy(should_repeat) == should_repeat \in {"False", "None"}

\* the rest of the loop of solve once model.optimize returned, with
\* sol_count solutions, nodes nodes and the runtime runtime: the first
\* exception of the callbacks is raised; else the totals grow and
\* iteration_cb is called, which returns should_repeat; then solve goes on
\* to the next optimize call or sets the flags and returns
solve_loop(slv, sol_count, nodes, runtime, should_repeat) ==
    LET optimized == [slv EXCEPT !.model.sol_count = sol_count, !.dirty = FALSE,
                                 !.runs = Append(@, <<nodes, runtime>>)]
        counted == [optimized EXCEPT !.total_nodes = @ + nodes,
                                     !.total_wallclock_time = @ + runtime,
                                     !.trace = Append(@, "iteration_cb " \o should_repeat)]
    IN  IF slv.callback_exceptions # <<>>
        THEN GrbOutcome([optimized EXCEPT !.pc = "idle"], slv.callback_exceptions[1])
        ELSE IF Falsy(should_repeat)
        THEN GrbOutcome([counted EXCEPT !.pc = "idle",
                                        !.has_lp_solution = FALSE,
                                        !.has_mip_solution = sol_count > 0],
                        "")
        ELSE GrbOutcome([counted EXCEPT !.trace = Append(@, "optimize")], "")

(* --------------------- the solver as a state machine ------------------ *)

\* the solutions handed to fix and to set_warm_start
Solutions == {[v \in {"x"} |-> 1], [v \in GrbVars |-> 0]}

\* the names of the constraints added and removed
ConstrIds == {"eq_capacity", "cut"}

\* what iteration_cb returns
CbResults == {"True", "False", "None"}

\* what one optimize call reports: solutions found, nodes, runtime
Optimized == {<<0, 1, 2>>, <<1, 3, 1>>}

\* GurobiSolver(): lazy_cb_frequency has its default, 1
InitGrb ==
    /\ StoreIdle
    /\ sample = EmptyMap
    /\ instance = None
    /\ call = NoCall
    /\ solver = GurobiSolver(1)

\* a method may be called: by the user when solve is not running, or by
\* the body of a callback
MayCall == solver.pc \in {"idle", "callback"} /\ solver.calls < MaxCalls

\* the method op was called and had the outcome r
Called(op, r) ==
    /\ solver' = [r.slv EXCEPT !.calls = @ + 1]
    /\ call' = [op |-> op, arg |-> None, exc |-> r.exc,
                result |-> PyStr(IF r.slv.pc = "optimize" THEN "running" ELSE "")]
    /\ UNCHANGED <<sample, instance>>
    /\ UNCHANGED storeVars

SetInstance == MayCall /\ Called("set_instance", set_instance(solver))

Fix == MayCall /\ \E sol \in Solutions : Called("fix", fix(solver, sol))

SetWarmStart ==
    MayCall /\ \E sol \in {[v \in GrbVars |-> 0]} :
                  Called("set_warm_start", set_warm_start(solver, sol))

SolveLp == MayCall /\ \E n \in {0, 1} : Called("solve_lp", solve_lp(solver, n))

Relax == MayCall /\ Called("relax", relax(solver))

AddConstraint == MayCall /\ Called("add_constraint", add_constraint(solver, "cut"))

RemoveConstraint ==
    /\ MayCall
    /\ \E name \in ConstrIds \cap solver.model.constrs :
          Called("remove_constraint", remove_constraint(solver, name))

GetConstraints == MayCall /\ Called("get_constraints", get_constraints(solver))

GetSolution == MayCall /\ Called("get_solution", get_solution(solver))

\* solve(iteration_cb, lazy_cb, user_cut_cb) is called
Solve ==
    /\ MayCall
    /\ \E icb \in BOOLEAN : \E lcb \in BOOLEAN : \E ucb \in BOOLEAN :
          Called("solve", solve_begin(solver, icb, lcb, ucb))

\* a step of solve that is not a call: the solver becomes slv, and solve
\* goes on (exc = "", result = "running") or ends
Step(op, slv, exc) ==
    /\ solver' = slv
    /\ call' = [op |-> op, arg |-> None, exc |-> exc,
                result |-> PyStr(IF slv.pc = "idle" THEN "" ELSE "running")]
    /\ UNCHANGED <<sample, instance>>
    /\ UNCHANGED storeVars

\* callback invocations of the solve that runs
Callbacks(slv) == Cardinality({i \in 1..Len(slv.trace) : slv.trace[i] = "callback"})

\* optimize calls of the solve that runs
Optimizes(slv) == Cardinality({i \in 1..Len(slv.trace) : slv.trace[i] = "optimize"})

\* gurobipy calls cb_wrapper during optimize
CallbackEnter ==
    /\ solver.pc = "optimize"
    /\ Callbacks(solver) < MaxCallbacks
    /\ \E cb_where \in {"MIPSOL", "MIPNODE"} :
          Step("cb_wrapper", cb_wrapper_enter(solver, cb_where), "")

\* the body of the callback returns
CallbackReturn ==
    /\ solver.pc = "callback"
    /\ Step("cb_wrapper", cb_wrapper_return(solver), "")

\* the body of the callback raises: an exception of its own, or the one
\* that the method it called last raised
CallbackRaise ==
    /\ solver.pc = "callback"
    /\ \E e \in {"E1", "E2"} \cup ({call.exc} \ {""}) :
          Step("cb_wrapper", cb_wrapper_raise(solver, e), "")

\* model.optimize returns and solve goes round its loop
OptimizeReturns ==
    /\ solver.pc = "optimize"
    /\ \E opt \in Optimized :
          \E should_repeat \in (IF solver.iteration_cb THEN CbResults ELSE {"False"}) :
             LET r == solve_loop(solver, opt[1], opt[2], opt[3], should_repeat)
             IN  /\ r.slv.pc = "optimize" => Optimizes(solver) < MaxOptimize
                 /\ Step("solve", r.slv, r.exc)

NextGrb ==
    \/ SetInstance
    \/ Fix
    \/ SetWarmStart
    \/ SolveLp
    \/ Relax
    \/ AddConstraint
    \/ RemoveConstraint
    \/ GetConstraints
    \/ GetSolution
    \/ Solve
    \/ CallbackEnter
    \/ CallbackReturn
    \/ CallbackRaise
    \/ OptimizeReturns

SpecGrb == InitGrb /\ [][NextGrb]_vars

(* ------------------------------- C21 ----------------------------------- *)

\* extract_after_lp_features has returned or raised
LpDone == call.op = "extract_after_lp_features"

\* the objective coefficient of variable i and its sensitivity range
Coeff(i) == solver.var_obj_coeffs.items[i]

SaDown(i) == solver.var_sa_obj_down.items[i]

SaUp(i) == solver.var_sa_obj_up.items[i]

\* a bound held to -1e20 below and to 1e20 above
ClampedDown(d) == IF Lt(d, FE(-1, 20)) THEN FE(-1, 20) ELSE d

ClampedUp(u) == IF Lt(FE(1, 20), u) THEN FE(1, 20) ELSE u

\* log(gap / sg) when sg is not zero and gap / sg exceeds 0.001, else 0.0
ExpectedLogGap(gap, sg) ==
    IF sg = F(0) THEN F(0)
    ELSE IF Lt(Float("fin", 1, 1000, 0), Div(gap, sg)) THEN log(Div(gap, sg))
    ELSE F(0)

\* the last but one and the last feature of the LP row of variable i
Feature47(i) ==
    LET row == Stored("lp_var_features_AlvLouWeh2017")[i].items IN row[Len(row) - 1]

Feature48(i) ==
    LET row == Stored("lp_var_features_AlvLouWeh2017")[i].items IN row[Len(row)]

\* C21: with sensitivity ranges that are numbers (infinite or not), the
\* after-LP features are stored and the two log-gap features of variable i
\* are made of its bounds held to -1e20 and 1e20: log(gap) when the sign of
\* the coefficient is not zero and the gap, (coeff - down) / sign or
\* (up - coeff) / sign, exceeds 0.001, and 0.0 otherwise; a zero
\* coefficient gives 0.0 for both whatever the bounds, and nothing raises.
C21_LogGapFeatures ==
    (/\ LpDone
     /\ solver.with_sa
     /\ "var_obj_coeffs" \in DOMAIN sample
     /\ \A i \in 1..VarCount : SaDown(i) # NaN /\ SaUp(i) # NaN)
        => /\ "lp_var_features_AlvLouWeh2017" \in DOMAIN sample
           /\ \A i \in 1..VarCount :
                 /\ Feature47(i) =
                       ExpectedLogGap(Sub(Coeff(i), ClampedDown(SaDown(i))), sign(Coeff(i)))
                 /\ Feature48(i) =
                       ExpectedLogGap(Sub(ClampedUp(SaUp(i)), Coeff(i)), sign(Coeff(i)))
                 /\ Coeff(i) = F(0) => Feature47(i) = F(0) /\ Feature48(i) = F(0)

\* scenario D: the first coefficient is 0.0 with the bounds -1e30 and 1e30
\* and its two features are 0.0; the second is 3.0 with no bound, and its
\* features are log(1e20) and log(1e20)
C21_Witness ==
    /\ LpDone
    /\ call.exc = ""
    /\ solver.with_sa
    /\ "lp_var_features_AlvLouWeh2017" \in DOMAIN sample
    /\ Coeff(1) = F(0)
    /\ SaDown(1) = FE(-1, 30)
    /\ SaUp(1) = FE(1, 30)
    /\ Feature47(1) = F(0)
    /\ Feature48(1) = F(0)
    /\ Coeff(2) = F(3)
    /\ SaDown(2) = NegInf
    /\ SaUp(2) = PosInf
    /\ Feature47(2) = Float("log", 1, 1, 20)
    /\ Feature48(2) = Float("log", 1, 1, 20)

(* --------------------------- C22, C23, C28 ----------------------------- *)

\* C22: a checkpoint leaves no partial state: when
\* extract_after_load_features or extract_after_lp_features raises, the
\* sample is as it was before the call.
C22_NoPartialState ==
    [][(/\ call'.op \in {"extract_after_load_features", "extract_after_lp_features"}
        /\ call'.exc # "")
          => sample' = sample]_vars

\* the keys extract_after_mip_features writes
MipKeys == {"mip_var_values", "mip_constr_slacks"}

\* C23: extract_after_mip_features writes the values of the variables and
\* the slacks of the constraints at mip_var_values and mip_constr_slacks,
\* leaves every other key of the sample as it is and adds none, raises
\* nothing and asks the solver for no sensitivity data.
C23_MipWritesTwoKeys ==
    [][call'.op = "extract_after_mip_features"
          => /\ call'.exc = ""
             /\ call'.arg = PyBool(FALSE)
             /\ DOMAIN sample' = DOMAIN sample \cup MipKeys
             /\ \A k \in DOMAIN sample \ MipKeys : sample'[k] = sample[k]
             /\ sample'["mip_var_values"] = solver.var_values
             /\ sample'["mip_constr_slacks"] = solver.constr_slacks]_vars

\* the MIP checkpoint has run on a sample that holds the keys of the load
\* and of the LP checkpoint
C23_Witness ==
    /\ call.op = "extract_after_mip_features"
    /\ MipKeys \subseteq DOMAIN sample
    /\ {"var_features", "lp_var_features", "lp_var_sa_obj_up", "lp_instance_features"}
           \subseteq DOMAIN sample
    /\ sample["lp_var_values"] = solver.var_values

\* C28: the features of the load checkpoint depend on static data only:
\* extract_after_load_features run again on a sample that holds var_features
\* (and by then lp_* keys) writes the same var_features_AlvLouWeh2017 and
\* var_features as the first run.
C28_LoadIgnoresLpKeys ==
    [][(/\ call'.op = "extract_after_load_features"
        /\ call'.exc = ""
        /\ "var_features" \in DOMAIN sample)
          => /\ sample'["var_features_AlvLouWeh2017"] = sample["var_features_AlvLouWeh2017"]
             /\ sample'["var_features"] = sample["var_features"]]_vars

(* ------------------------------- C27 ----------------------------------- *)

\* C27: a put on one key leaves every other key untouched: after
\* put_<kind>(k1, v), every get_<kind'>(k2) of a key k2 other than k1
\* returns what it returned before the put, in both classes.
C27_PutLeavesOtherKeys ==
    last.op = "put"
        => \A key \in AllKeys \ {last.key} : \A kind \in Kinds :
              Get(kind, key) = GetBefore(kind, key)

(* ------------------------------- C24 ----------------------------------- *)

\* C24: solve_lp does not permanently modify the problem: when it returns,
\* every variable has the type and the bounds it had before the call
C24_SolveLpKeepsProblem ==
    [][(call'.op = "solve_lp" /\ call'.exc = "" /\ solver'.calls = solver.calls + 1)
          => /\ solver'.model.vtype = solver.model.vtype
             /\ solver'.model.lb = solver.model.lb
             /\ solver'.model.ub = solver.model.ub]_vars

(* ------------------------------- C25 ----------------------------------- *)

\* the solve called last has returned
SolveReturned == solver.pc = "idle" /\ call.op = "solve" /\ call.exc = "" /\ solver.trace # <<>>

\* the events of the loop of solve: the trace without the callbacks
LoopEvents(trace) ==
    SelectSeq(trace, LAMBDA ev : ev \in {"optimize"} \cup {"iteration_cb " \o r : r \in CbResults})

RECURSIVE SumOf(_, _)
\* the sum of component k of the first n runs
SumOf(k, n) == IF n = 0 THEN 0 ELSE solver.runs[n][k] + SumOf(k, n - 1)

\* C25: without iteration_cb solve makes one optimize call; with one,
\* optimize and iteration_cb alternate, starting with optimize; solve
\* returns after iteration_cb returned False, and every other result is
\* followed by another optimize call; the totals are the sums over the
\* optimize calls
C25_IterationLoop ==
    LET ev == LoopEvents(solver.trace)
    IN  /\ SolveReturned /\ ~solver.iteration_cb => Optimizes(solver) = 1
        /\ \A i \in 1..Len(ev) : (ev[i] = "optimize") <=> (i % 2 = 1)
        /\ \A i \in 1..Len(ev) :
              ev[i] \in {"iteration_cb True", "iteration_cb None"}
                 => i < Len(ev) /\ ev[i + 1] = "optimize"
        /\ SolveReturned => ev[Len(ev)] = "iteration_cb False"
        /\ SolveReturned => /\ solver.total_nodes = SumOf(1, Len(solver.runs))
                            /\ solver.total_wallclock_time = SumOf(2, Len(solver.runs))
                            /\ Len(solver.runs) = Optimizes(solver)

(* ------------------------------- C26 ----------------------------------- *)

\* the methods that call _raise_if_callback
GuardedOps == {"solve", "solve_lp", "set_instance", "fix", "set_warm_start", "get_constraints"}

\* the methods a callback may use
CallbackOps == {"get_solution", "add_constraint"}

ChangingOps == {"add_constraint", "remove_constraint", "fix", "relax", "set_instance"}

\* C29: _has_lp_solution and _has_mip_solution are never both true, and
\* both are false after add_constraint, remove_constraint, fix, relax,
\* set_instance and after a solve that raised
C29_SolutionFlags ==
    /\ ~(solver.has_lp_solution /\ solver.has_mip_solution)
    /\ (\/ call.op \in ChangingOps /\ call.exc = ""
        \/ call.op = "solve" /\ call.exc # "" /\ solver.pc = "idle")
          => ~solver.has_lp_solution /\ ~solver.has_mip_solution

(* ------------------------------- C30 ----------------------------------- *)

\* ev is the exception of a callback body
IsRaise(ev) == ev \in {"raise " \o e : e \in {"E1", "E2", "Exception", "AssertionError", "KeyError"}}

\* C30: cb_where is set exactly while a callback body runs, so a guarded
\* method called outside a callback is never rejected; when a body has
\* raised, solve raises the first of the exceptions after optimize returns,
\* with no iteration_cb call and no optimize call in between
C30_CallbackExceptions ==
    /\ (solver.cb_where # "None") <=> (solver.pc = "callback")
    /\ (call.op \in GuardedOps /\ call.exc = "Exception" /\ solver.pc # "callback")
          => /\ call.op = "solve"
             /\ solver.callback_exceptions # <<>>
             /\ solver.callback_exceptions[1] = "Exception"
    /\ \A i \in 1..Len(solver.trace) : \A j \in 1..Len(solver.trace) :
          (i < j /\ IsRaise(solver.trace[i]))
             => solver.trace[j] \in {"callback"} \cup {"raise " \o e : e \in {"E1", "E2", "Exception", "AssertionError", "KeyError"}}
    /\ (solver.pc = "idle" /\ solver.callback_exceptions # <<>>)
          => /\ \E i \in 1..Len(solver.trace) :
                   /\ solver.trace[i] = "raise " \o solver.callback_exceptions[1]
                   /\ \A k \in 1..(i - 1) : ~IsRaise(solver.trace[k])
             /\ Len(solver.runs) = Optimizes(solver)
             /\ call.op = "solve" => call.exc = solver.callback_exceptions[1]

\* two bodies raised during one solve, E2 first; solve raised E2, and the
\* fix called afterwards was accepted
C30_Witness ==
    /\ solver.pc = "idle"
    /\ solver.cb_where = "None"
    /\ solver.callback_exceptions = <<"E2", "E1">>
    /\ call.op = "fix"
    /\ call.exc = ""

====
